---- MODULE Spec2Model ----
(***************************************************************************)
(* A model of the file-sharing and static-site-hosting application:        *)
(*   - the Site Registry of one website (upload of files with virtual      *)
(*     paths, index selection, duplicate cleanup, publish toggle, view),   *)
(*     specification Spec;                                                 *)
(*   - slug generation and row insertion for share links and websites by   *)
(*     concurrent requests, specification SpecSlug;                        *)
(*   - share links and their access checks (share page, download,          *)
(*     preview, password verification), specification SpecShare;           *)
(*   - the Content Store: every upload path, resolution of stored files,   *)
(*     download, deletion and website assets, specification SpecStore;     *)
(*   - the rendering of a website's entry point (base tag and watermark),  *)
(*     specification SpecRender;                                           *)
(*   - the upload paths with requests that fail part-way, specification    *)
(*     SpecAtomic;                                                         *)
(*   - a password-protected website seen by visitors, specification        *)
(*     SpecGuard;                                                          *)
(*   - uploads and views of one website, and accesses of share links, by   *)
(*     requests that overlap in time, specifications SpecRace and          *)
(*     SpecCount.                                                          *)
(* File names and paths are sequences of one-character strings, so that    *)
(* splitting, sanitising and lower-casing are computed as the code does.   *)
(***************************************************************************)
EXTENDS Naturals, Integers, Sequences, FiniteSets, TLC

VARIABLES
    exists,         \* the Website row has been created (website.py:41-54)
    is_published,   \* Website.is_published
    website_files,  \* the WebsiteFile rows of the website, joined with File
    response,       \* the HTTP response of the last request handled
    links,          \* the persisted Link rows
    websites,       \* the persisted Website rows (slug table)
    req,            \* the concurrent creation requests and their positions
    db,             \* the tables behind share links: files, links,
                    \* user_files, websites and website_files
    disk,           \* the Content Store: the files below UPLOAD_FOLDER
    now,            \* datetime.utcnow(), in days
    reply,          \* the outcome of the last share or storage request
    page,           \* the entry point being rendered and its outcome
    visitor,        \* the session of a site visitor: the websites whose
                    \* password hash it holds
    txn             \* the requests in flight: what each one has read

siteVars == <<exists, is_published, website_files, response>>
slugVars == <<links, websites, req>>
shareVars == <<db, disk, now, reply>>
renderVars == <<page>>
guardVars == <<visitor>>
raceVars == <<txn>>
vars == <<exists, is_published, website_files, response, links, websites, req,
          db, disk, now, reply, page, visitor, txn>>

----------------------------------------------------------------------------
(* Bounds of the model *)

\* highest WebsiteFile id the model creates
MaxId == 3
\* largest number of files in one upload request
MaxBatch == 2
\* number of concurrent creation requests
NumRequests == 3
\* length of a link slug and size of the alphabet it is drawn from
SlugLength == 1
AlphabetSize == 2

----------------------------------------------------------------------------
(* Characters and strings *)

UpperSeq == <<"A","B","C","D","E","F","G","H","I","J","K","L","M",
              "N","O","P","Q","R","S","T","U","V","W","X","Y","Z">>
LowerSeq == <<"a","b","c","d","e","f","g","h","i","j","k","l","m",
              "n","o","p","q","r","s","t","u","v","w","x","y","z">>
DigitSeq == <<"0","1","2","3","4","5","6","7","8","9">>

Range(s) == {s[i] : i \in DOMAIN s}

UpperChars == Range(UpperSeq)

\* the lower-case letter of each upper-case letter
LowerOf == [c \in UpperChars |->
              LowerSeq[CHOOSE i \in DOMAIN UpperSeq : UpperSeq[i] = c]]

\* str.lower() on one character
LowerChar(c) == IF c \in UpperChars THEN LowerOf[c] ELSE c

\* str.lower()
Lower(s) == [i \in DOMAIN s |-> LowerChar(s[i])]

\* str.replace(a, b) for single characters
ReplaceChar(s, a, b) == [i \in DOMAIN s |-> IF s[i] = a THEN b ELSE s[i]]

\* str.split(sep): every segment between separators, empty ones included
RECURSIVE SplitFrom(_, _, _, _)
SplitFrom(s, sep, i, cur) ==
    IF i > Len(s) THEN <<cur>>
    ELSE IF s[i] = sep THEN <<cur>> \o SplitFrom(s, sep, i + 1, <<>>)
    ELSE SplitFrom(s, sep, i + 1, Append(cur, s[i]))

Split(s, sep) == SplitFrom(s, sep, 1, <<>>)

\* [p for p in parts if p]
NonEmpty(parts) == SelectSeq(parts, LAMBDA p : p # <<>>)

\* sep.join(parts)
RECURSIVE Join(_, _)
Join(parts, sep) ==
    IF parts = <<>> THEN <<>>
    ELSE IF Len(parts) = 1 THEN parts[1]
    ELSE parts[1] \o <<sep>> \o Join(Tail(parts), sep)

\* str.strip(chars)
RECURSIVE LStrip(_, _)
LStrip(s, chars) ==
    IF s # <<>> /\ Head(s) \in chars THEN LStrip(Tail(s), chars) ELSE s

RECURSIVE RStrip(_, _)
RStrip(s, chars) ==
    IF s # <<>> /\ s[Len(s)] \in chars
    THEN RStrip(SubSeq(s, 1, Len(s) - 1), chars) ELSE s

Strip(s, chars) == RStrip(LStrip(s, chars), chars)

\* the characters werkzeug's _filename_ascii_strip_re keeps: [A-Za-z0-9_.-]
SafeChars == UpperChars \cup Range(LowerSeq) \cup Range(DigitSeq)
             \cup {"_", ".", "-"}

\* werkzeug.utils.secure_filename on an ASCII name, as called on each path
\* segment: the path separator becomes a space, whitespace runs become "_",
\* characters outside [A-Za-z0-9_.-] are dropped, and leading and trailing
\* "." and "_" are stripped (so ".." and "..." give the empty string).
secure_filename(seg) ==
    LET spaced == ReplaceChar(seg, "/", " ")
        joined == Join(NonEmpty(Split(spaced, " ")), "_")
        kept   == SelectSeq(joined, LAMBDA c : c \in SafeChars)
    IN  Strip(kept, {".", "_"})

----------------------------------------------------------------------------
(* The WebsiteFile rows of the website.  A row is joined with its File:    *)
(* [id, original_filename, file_path, is_index].                           *)

\* the logged-in users: the website's owner and another user (an admin
\* passes every ownership check the owner passes and is not told apart)
Users == {"owner", "other"}

\* faulty variant: ownership is not checked
Authorized_Anyone(u) == TRUE

\* not (website.user_id != user.id and not user.is_admin)
Authorized(u) == u = "owner"

\* free-plan limit on the number of files of one website
MAX_FILES_FREE == 50

IndexNames ==
    { <<"i","n","d","e","x",".","h","t","m","l">>,
      <<"i","n","d","e","x",".","h","t","m">> }

OtherPatterns ==
    { <<"d","e","f","a","u","l","t",".","h","t","m","l">>,
      <<"d","e","f","a","u","l","t",".","h","t","m">>,
      <<"h","o","m","e",".","h","t","m","l">>,
      <<"h","o","m","e",".","h","t","m">> }

Ids(files) == {f.id : f \in files}

MaxIdOf(files) == IF files = {} THEN 0
                  ELSE CHOOSE m \in Ids(files) : \A i \in Ids(files) : i <= m

\* the rows in the order the database returns them: by primary key
RECURSIVE SortedById(_)
SortedById(files) ==
    IF files = {} THEN <<>>
    ELSE LET f == CHOOSE g \in files : \A h \in files : g.id <= h.id
         IN  <<f>> \o SortedById(files \ {f})

Flagged(files) == {f \in files : f.is_index}

\* website.website_files.filter_by(is_index=True).first()
FirstIndex(files) ==
    IF Flagged(files) = {} THEN {}
    ELSE {CHOOSE f \in Flagged(files) : \A g \in Flagged(files) : f.id <= g.id}

SetFlag(files, ids, v) ==
    {IF f.id \in ids THEN [f EXCEPT !.is_index = v] ELSE f : f \in files}

----------------------------------------------------------------------------
(* upload_website_files: path normalisation *)

\* file.filename.replace('\\', '/'), split on '/', empty parts dropped
PathParts(filename) ==
    NonEmpty(Split(ReplaceChar(filename, "\\", "/"), "/"))

\* first pass: the first part of the first file that has more than one part
\* (<<>> stands for None)
RECURSIVE RootPrefixFrom(_, _)
RootPrefixFrom(batch, i) ==
    IF i > Len(batch) THEN <<>>
    ELSE IF batch[i].filename # <<>> /\ Len(PathParts(batch[i].filename)) > 1
         THEN PathParts(batch[i].filename)[1]
         ELSE RootPrefixFrom(batch, i + 1)

RootPrefix(batch) == RootPrefixFrom(batch, 1)

\* parts after the optional strip of the common top-level folder
StrippedParts(filename, root_prefix) ==
    LET parts == PathParts(filename)
    IN  IF Len(parts) > 1 /\ root_prefix # <<>> /\ parts[1] = root_prefix
        THEN Tail(parts) ELSE parts

\* [secure_filename(seg) for seg in raw_folders if seg]: the filter is on
\* the raw segment, the sanitised one may be empty
SanitizedFolders(raw_folders) ==
    [i \in DOMAIN raw_folders |-> secure_filename(raw_folders[i])]

\* base_filename, folder_path and full_path of one uploaded file
NormalizedPath(filename, root_prefix) ==
    LET original_path == ReplaceChar(filename, "\\", "/")
        parts       == StrippedParts(filename, root_prefix)
        raw_base    == IF parts # <<>> THEN parts[Len(parts)] ELSE original_path
        raw_folders == IF parts # <<>> THEN SubSeq(parts, 1, Len(parts) - 1)
                       ELSE <<>>
        base        == secure_filename(raw_base)
        folder_path == Join(SanitizedFolders(raw_folders), "/")
    IN  [ base_filename |-> base,
          folder_path   |-> folder_path,
          full_path     |-> IF folder_path # <<>>
                            THEN folder_path \o <<"/">> \o base ELSE base ]

----------------------------------------------------------------------------
(* upload_website_files: index detection and row creation for one file *)

\* faulty variant: the previous index is left flagged
UnmarkExisting_Skipped(files) == files

\* existing_index.is_index = False
UnmarkExisting(files) == SetFlag(files, Ids(FirstIndex(files)), FALSE)

\* the decision of lines 217-243 for one file: [files, is_index, index_found]
IndexDecision(files, np, index_found) ==
    LET lower    == Lower(np.base_filename)
        existing == FirstIndex(files)
        primary  == lower \in IndexNames
                    /\ (existing = {} \/ np.folder_path = <<>>)
        files1   == IF primary /\ existing # {} THEN UnmarkExisting(files)
                    ELSE files
        found1   == index_found \/ primary
        other    == ~primary /\ ~found1 /\ lower \in OtherPatterns
                    /\ FirstIndex(files1) = {}
    IN  [ files       |-> files1,
          is_index    |-> primary \/ other,
          index_found |-> found1 \/ other ]

\* the raw filenames a browser may send
UploadNames ==
    { <<"i","n","d","e","x",".","h","t","m","l">>,
      <<"i","n","d","e","x",".","h","t","m">>,
      <<"w","/","d","/","I","n","d","e","x",".","H","T","M">>,
      <<"h","o","m","e",".","h","t","m","l">>,
      <<"v","\\",".",".","\\","d","\\","a",".","j","s">>,
      <<".",".">> }

\* the values root_prefix takes for these filenames (<<>>: None)
RootPrefixes ==
    {<<>>} \cup {PathParts(n)[1] : n \in {m \in UploadNames : PathParts(m) # <<>>}}

\* NormalizedPath of every filename under every root prefix
Normalized ==
    [n \in UploadNames, rp \in RootPrefixes |-> NormalizedPath(n, rp)]

\* one iteration of the loop of lines 146-257: [files, index_found]
UploadOne(files, item, root_prefix, index_found) ==
    LET np == Normalized[item.filename, root_prefix]
        d  == IndexDecision(files, np, index_found)
    IN  IF item.filename = <<>> \/ np.base_filename = <<>>
        THEN [files |-> files, index_found |-> index_found]
        ELSE [ files |-> d.files \cup
                         { [ id                |-> MaxIdOf(files) + 1,
                             original_filename |-> np.base_filename,
                             file_path         |-> np.full_path,
                             is_index          |-> d.is_index ] },
               index_found |-> d.index_found ]

RECURSIVE UploadLoop(_, _, _, _, _)
UploadLoop(files, batch, i, root_prefix, index_found) ==
    IF i > Len(batch) THEN files
    ELSE LET r == UploadOne(files, batch[i], root_prefix, index_found)
         IN  UploadLoop(r.files, batch, i + 1, root_prefix, r.index_found)

\* one uploaded file of the request (its content is not modelled; every
\* file is taken to be within the 50MB per-file limit of line 193)
Items == [filename : UploadNames]

Batches == UNION {[1..n -> Items] : n \in 0..MaxBatch}

----------------------------------------------------------------------------
(* fix_index_detection *)

\* is_root = not '/' in file_path or file_path == file.original_filename
IsRoot(f) == "/" \notin Range(f.file_path) \/ f.file_path = f.original_filename

\* the first loop (lines 363-374): [root_index, other_indexes]
RECURSIVE ScanIndexes(_, _, _, _)
ScanIndexes(rows, i, root_index, other_indexes) ==
    IF i > Len(rows)
    THEN [root_index |-> root_index, other_indexes |-> other_indexes]
    ELSE IF Lower(rows[i].original_filename) \in IndexNames
         THEN IF IsRoot(rows[i])
              THEN ScanIndexes(rows, i + 1,
                               IF root_index = {} THEN {rows[i].id}
                               ELSE root_index,
                               other_indexes)
              ELSE ScanIndexes(rows, i + 1, root_index,
                               Append(other_indexes, rows[i].id))
         ELSE ScanIndexes(rows, i + 1, root_index, other_indexes)

\* the second loop (lines 386-394): the first root file with another
\* homepage name, as a set of at most one id
RECURSIVE ScanOthers(_, _)
ScanOthers(rows, i) ==
    IF i > Len(rows) THEN {}
    ELSE IF Lower(rows[i].original_filename) \in OtherPatterns
            /\ IsRoot(rows[i])
         THEN {rows[i].id}
         ELSE ScanOthers(rows, i + 1)

\* faulty variant: the stored flags are not cleared before the scan
UnmarkAll_Skipped(files) == files

\* WebsiteFile.query.filter_by(website_id=...).update({'is_index': False})
UnmarkAll(files) == SetFlag(files, Ids(files), FALSE)

\* faulty variant: an index in a subdirectory is preferred to the root index
PickIndex_SubdirFirst(scan) ==
    IF scan.other_indexes # <<>> THEN {scan.other_indexes[1]}
    ELSE scan.root_index

\* root index first, then the other indexes (lines 377-382)
PickIndex(scan) ==
    IF scan.root_index # {} THEN scan.root_index
    ELSE IF scan.other_indexes # <<>> THEN {scan.other_indexes[1]}
    ELSE {}

\* the rows after fix_index_detection has committed
FixIndexFiles(files) ==
    LET cleared == UnmarkAll(files)
        rows    == SortedById(cleared)
        picked  == PickIndex(ScanIndexes(rows, 1, {}, <<>>))
    IN  IF picked # {} THEN SetFlag(cleared, picked, TRUE)
        ELSE SetFlag(cleared, ScanOthers(rows, 1), TRUE)

----------------------------------------------------------------------------
(* cleanup_duplicate_files *)

\* key = (file.original_filename.lower(), wf.file_path or '')
DupKey(f) == <<Lower(f.original_filename), f.file_path>>

\* faulty variant: the row met second is always the one removed
ResolveDuplicate_DropCurrent(wf, existing_wf) ==
    [deleted |-> wf, kept |-> existing_wf]

\* the body of the loop for a key already seen (lines 428-436):
\* [deleted, kept], the row deleted and the row left in seen_files
ResolveDuplicate(wf, existing_wf) ==
    IF wf.id > existing_wf.id
    THEN [deleted |-> existing_wf, kept |-> wf]
    ELSE [deleted |-> wf, kept |-> existing_wf]

\* the loop of lines 422-438 over the rows in the order given; seen is the
\* set of rows held by seen_files, the result is the set of rows deleted
RECURSIVE CleanupLoop(_, _, _, _)
CleanupLoop(order, i, seen, deleted) ==
    IF i > Len(order) THEN deleted
    ELSE LET wf   == order[i]
             same == {e \in seen : DupKey(e) = DupKey(wf)}
         IN  IF same # {}
             THEN LET r == ResolveDuplicate(wf, CHOOSE e \in same : TRUE)
                  IN  CleanupLoop(order, i + 1,
                                  (seen \ same) \cup {r.kept},
                                  deleted \cup {r.deleted})
             ELSE CleanupLoop(order, i + 1, seen \cup {wf}, deleted)

\* list(website.website_files) carries no ORDER BY: any order of the rows
Orders(files) ==
    {o \in [1..Cardinality(files) -> files] :
        \A i, j \in DOMAIN o : i # j => o[i] # o[j]}

----------------------------------------------------------------------------
(* The requests of the Site Registry, one action per handler.  response    *)
(* is what the client got back: the status, the flashed message, the       *)
(* redirect location and, for a served entry point, the row served.        *)

\* no row served
NoServed == {}

Resp(status, flash, location) ==
    [status |-> status, flash |-> flash, location |-> location,
     served |-> NoServed]

Forbidden == Resp(403, "none", "none")

\* the HTTP methods each route accepts
Methods(route) ==
    CASE route = "fix_index_detection" -> {"POST"}
      [] route = "create_website"      -> {"GET", "POST"}
      [] OTHER                         -> {"GET"}

SiteInit ==
    /\ exists = FALSE
    /\ is_published = FALSE
    /\ website_files = {}
    /\ response = Resp(200, "none", "none")

\* create_website (POST): the website is created unpublished and empty
CreateWebsite(has_name) ==
    /\ ~exists
    /\ IF ~has_name
       THEN /\ response' = Resp(302, "name_required", "create_website")
            /\ UNCHANGED <<exists, is_published, website_files>>
       ELSE /\ exists' = TRUE
            /\ is_published' = FALSE
            /\ website_files' = {}
            /\ response' = Resp(302, "created", "manage_website")
    /\ UNCHANGED <<slugVars, shareVars, renderVars, guardVars, raceVars>>

\* upload_website_files (file sizes, and with them the storage quota, are
\* not modelled)
UploadWebsiteFiles(u) ==
    /\ exists
    /\ IF ~Authorized(u)
       THEN /\ response' = Forbidden
            /\ UNCHANGED website_files
       ELSE \E batch \in Batches :
              /\ MaxIdOf(website_files) + Len(batch) <= MaxId
              /\ IF batch = <<>>
                 THEN /\ response' = Resp(302, "no_files", "manage_website")
                      /\ UNCHANGED website_files
                 ELSE IF Cardinality(website_files) + Len(batch) > MAX_FILES_FREE
                 THEN /\ response' = Resp(302, "file_limit", "manage_website")
                      /\ UNCHANGED website_files
                 ELSE /\ website_files' =
                            UploadLoop(website_files, batch, 1,
                                       RootPrefix(batch), FALSE)
                      /\ response' = Resp(302, "uploaded", "manage_website")
    /\ UNCHANGED <<exists, is_published>>
    /\ UNCHANGED <<slugVars, shareVars, renderVars, guardVars, raceVars>>

\* faulty variant: the index check is missing
HasIndex_Unchecked(files) == TRUE

\* website.website_files.filter_by(is_index=True).first() is not None
HasIndex(files) == Flagged(files) # {}

\* publish_website
PublishWebsite(u) ==
    /\ exists
    /\ IF ~Authorized(u)
       THEN /\ response' = Forbidden
            /\ UNCHANGED is_published
       ELSE IF Cardinality(website_files) = 0
       THEN /\ response' = Resp(302, "upload_files_first", "manage_website")
            /\ UNCHANGED is_published
       ELSE IF ~HasIndex(website_files)
       THEN /\ response' = Resp(302, "upload_index_first", "manage_website")
            /\ UNCHANGED is_published
       ELSE /\ is_published' = ~is_published
            /\ response' = Resp(302,
                                IF ~is_published THEN "published"
                                ELSE "unpublished",
                                "manage_website")
    /\ UNCHANGED <<exists, website_files>>
    /\ UNCHANGED <<slugVars, shareVars, renderVars, guardVars, raceVars>>

\* delete_website: the WebsiteFile rows go with the website
DeleteWebsite(u) ==
    /\ exists
    /\ IF ~Authorized(u)
       THEN /\ response' = Forbidden
            /\ UNCHANGED <<exists, is_published, website_files>>
       ELSE /\ exists' = FALSE
            /\ is_published' = FALSE
            /\ website_files' = {}
            /\ response' = Resp(302, "deleted", "dashboard")
    /\ UNCHANGED <<slugVars, shareVars, renderVars, guardVars, raceVars>>

\* fix_index_detection (POST)
FixIndexDetection(u) ==
    /\ exists
    /\ IF ~Authorized(u)
       THEN /\ response' = Forbidden
            /\ UNCHANGED website_files
       ELSE /\ website_files' = FixIndexFiles(website_files)
            /\ response' = Resp(302,
                                IF Flagged(FixIndexFiles(website_files)) # {}
                                THEN "index_detected" ELSE "no_index",
                                "manage_website")
    /\ UNCHANGED <<exists, is_published>>
    /\ UNCHANGED <<slugVars, shareVars, renderVars, guardVars, raceVars>>

\* cleanup_duplicate_files (POST): when duplicates were removed the response
\* redirects the client to the fix_index_detection route
CleanupDuplicateFiles(u) ==
    /\ exists
    /\ IF ~Authorized(u)
       THEN /\ response' = Forbidden
            /\ UNCHANGED website_files
       ELSE \E order \in Orders(website_files) :
              LET deleted == CleanupLoop(order, 1, {}, {})
              IN  /\ website_files' = website_files \ deleted
                  /\ response' =
                       IF Cardinality(deleted) > 0
                       THEN Resp(302, "removed", "fix_index_detection")
                       ELSE Resp(302, "no_duplicates", "manage_website")
    /\ UNCHANGED <<exists, is_published>>
    /\ UNCHANGED <<slugVars, shareVars, renderVars, guardVars, raceVars>>

\* the client follows the redirect of the last response: a GET request to
\* the location, answered 405 by a route that does not accept GET (a GET
\* handler of these locations changes no row)
FollowRedirect ==
    /\ response.status = 302
    /\ response' = Resp(IF "GET" \in Methods(response.location) THEN 200
                        ELSE 405,
                        "none", "none")
    /\ UNCHANGED <<exists, is_published, website_files>>
    /\ UNCHANGED <<slugVars, shareVars, renderVars, guardVars, raceVars>>

\* the query of lines 124-138: the first row named index.html, else the
\* first row named index.htm (ilike: case-insensitive), as a set of rows
AutoDetect(files) ==
    LET html == {f \in files : Lower(f.original_filename)
                                 = <<"i","n","d","e","x",".","h","t","m","l">>}
        htm  == {f \in files : Lower(f.original_filename)
                                 = <<"i","n","d","e","x",".","h","t","m">>}
        pool == IF html # {} THEN html ELSE htm
    IN  IF pool = {} THEN {}
        ELSE {CHOOSE f \in pool : \A g \in pool : f.id <= g.id}

\* view_website (GET /site/<slug>); pw_ok: the site has no password or the
\* requester supplied the right one (the view counter is not modelled)
ViewWebsite(pw_ok) ==
    /\ IF ~exists \/ ~is_published
       THEN /\ response' = Resp(404, "none", "none")
            /\ UNCHANGED website_files
       ELSE IF ~pw_ok
       THEN /\ response' = Resp(200, "password_page", "none")
            /\ UNCHANGED website_files
       ELSE LET marked == FirstIndex(website_files)
                found  == IF marked # {} THEN marked
                          ELSE AutoDetect(website_files)
            IN  /\ website_files' =
                      IF marked = {} THEN SetFlag(website_files, Ids(found), TRUE)
                      ELSE website_files
                /\ response' =
                      IF found # {}
                      THEN [Resp(200, "index", "none")
                            EXCEPT !.served = Ids(found)]
                      ELSE Resp(200, "listing", "none")
    /\ UNCHANGED <<exists, is_published>>
    /\ UNCHANGED <<slugVars, shareVars, renderVars, guardVars, raceVars>>

----------------------------------------------------------------------------
(* Slug generation and row insertion by concurrent requests.  A request    *)
(* generates its slug against the committed rows and inserts its row when  *)
(* it commits; the unique constraint of the slug column is the only        *)
(* coordination between requests.                                          *)

Requests == 1..NumRequests

\* string.ascii_letters + string.digits, cut to the model's alphabet size
SlugAlphabet == Range(SubSeq(LowerSeq \o UpperSeq \o DigitSeq, 1, AlphabetSize))

\* ''.join(secrets.choice(alphabet) for _ in range(length))
LinkSlugs == [1..SlugLength -> SlugAlphabet]

\* the website names a user may enter
WebsiteNames == { <<"a">>, <<"A", "!">>, <<"a", " ", "1">> }

Slugs(table) == {row.slug : row \in table}

\* faulty variant: the slug column carries no unique constraint
UniqueViolation_NoConstraint(table, slug) == FALSE

\* slug = db.Column(..., unique=True): an insert of a slug already in the
\* table raises IntegrityError
UniqueViolation(table, slug) == slug \in Slugs(table)

\* the table with a new row for the slug
Insert(table, slug) ==
    table \cup {[id |-> MaxIdOf(table) + 1, slug |-> slug]}

\* \w, \s and "-"
WordChars == UpperChars \cup Range(LowerSeq) \cup Range(DigitSeq) \cup {"_"}

\* re.sub(r'[-\s]+', '-', slug): every run of hyphens and spaces becomes "-"
RECURSIVE CollapseRuns(_, _)
CollapseRuns(t, i) ==
    IF i > Len(t) THEN <<>>
    ELSE IF t[i] \in {"-", " "}
         THEN IF i > 1 /\ t[i - 1] \in {"-", " "}
              THEN CollapseRuns(t, i + 1)
              ELSE <<"-">> \o CollapseRuns(t, i + 1)
         ELSE <<t[i]>> \o CollapseRuns(t, i + 1)

\* the two re.sub calls of Website.generate_slug on name.lower()
Slugify(name) ==
    CollapseRuns(SelectSeq(Lower(name),
                           LAMBDA c : c \in WordChars \cup {" ", "-"}), 1)

\* length of base_slug
BaseSlugLength == 45

\* str(counter)
RECURSIVE Decimal(_)
Decimal(n) ==
    IF n < 10 THEN <<DigitSeq[n + 1]>>
    ELSE Decimal(n \div 10) \o <<DigitSeq[(n % 10) + 1]>>

\* the loop of Website.generate_slug
RECURSIVE UniqueSlug(_, _, _, _)
UniqueSlug(table, base_slug, slug, counter) ==
    IF slug \in Slugs(table)
    THEN UniqueSlug(table, base_slug,
                    base_slug \o <<"-">> \o Decimal(counter), counter + 1)
    ELSE slug

\* Website.generate_slug(name) against the committed rows
WebsiteSlug(table, name) ==
    LET slug == Slugify(name)
        base_slug == SubSeq(slug, 1, IF Len(slug) < BaseSlugLength
                                     THEN Len(slug) ELSE BaseSlugLength)
    IN  UniqueSlug(table, base_slug, slug, 1)

Idle == [pc |-> "idle", kind |-> "none", slug |-> <<>>, status |-> 0]

SlugInit ==
    /\ links = {}
    /\ websites = {}
    /\ req = [r \in Requests |-> Idle]

\* process_upload up to Link.generate_slug(): the loop returns a random
\* slug that no committed Link row has
LinkGenerateSlug(r, slug) ==
    /\ req[r].pc = "idle"
    /\ slug \notin Slugs(links)
    /\ req' = [req EXCEPT ![r] = [pc |-> "has_slug", kind |-> "link",
                                  slug |-> slug, status |-> 0]]
    /\ UNCHANGED <<links, websites>>
    /\ UNCHANGED <<siteVars, shareVars, renderVars, guardVars, raceVars>>

\* process_upload from db.session.add(new_link) to the response: the commit
\* inserts the row, or raises and the handler rolls back and answers 500
LinkInsert(r) ==
    /\ req[r].pc = "has_slug"
    /\ req[r].kind = "link"
    /\ IF UniqueViolation(links, req[r].slug)
       THEN /\ req' = [req EXCEPT ![r].pc = "done", ![r].status = 500]
            /\ UNCHANGED links
       ELSE /\ links' = Insert(links, req[r].slug)
            /\ req' = [req EXCEPT ![r].pc = "done", ![r].status = 200]
    /\ UNCHANGED websites
    /\ UNCHANGED <<siteVars, shareVars, renderVars, guardVars, raceVars>>

\* create_website up to Website.generate_slug(name)
WebsiteGenerateSlug(r, name) ==
    /\ req[r].pc = "idle"
    /\ req' = [req EXCEPT ![r] = [pc |-> "has_slug", kind |-> "website",
                                  slug |-> WebsiteSlug(websites, name),
                                  status |-> 0]]
    /\ UNCHANGED <<links, websites>>
    /\ UNCHANGED <<siteVars, shareVars, renderVars, guardVars, raceVars>>

\* create_website from db.session.add(website) to the response: the commit
\* inserts the row, or raises IntegrityError, which nothing catches (500)
WebsiteInsert(r) ==
    /\ req[r].pc = "has_slug"
    /\ req[r].kind = "website"
    /\ IF UniqueViolation(websites, req[r].slug)
       THEN /\ req' = [req EXCEPT ![r].pc = "done", ![r].status = 500]
            /\ UNCHANGED websites
       ELSE /\ websites' = Insert(websites, req[r].slug)
            /\ req' = [req EXCEPT ![r].pc = "done", ![r].status = 302]
    /\ UNCHANGED links
    /\ UNCHANGED <<siteVars, shareVars, renderVars, guardVars, raceVars>>

NextSlug ==
    \/ \E r \in Requests, slug \in LinkSlugs : LinkGenerateSlug(r, slug)
    \/ \E r \in Requests : LinkInsert(r)
    \/ \E r \in Requests, name \in WebsiteNames : WebsiteGenerateSlug(r, name)
    \/ \E r \in Requests : WebsiteInsert(r)

----------------------------------------------------------------------------
(* The Content Store: files below UPLOAD_FOLDER.  A path is the sequence    *)
(* of its segments below the storage root; disk is a set of                *)
(* [path, bytes] with one entry per path.                                  *)

sharedfiles == <<"s","h","a","r","e","d","f","i","l","e","s">>
websitefiles == <<"w","e","b","s","i","t","e","f","i","l","e","s">>
anonymous == <<"a","n","o","n","y","m","o","u","s">>

\* the registered accounts and the full name each one registered with
\* (register() accepts any non-empty full_name)
Accounts == {"u1", "u2"}

full_name ==
    [u \in Accounts |-> IF u = "u1" THEN <<"a","n","n"," ","l","e","e">>
                        ELSE <<"a","/","b"," ","c">>]

\* a request's session: no user logged in, or one of the accounts
Sessions == {"none"} \cup Accounts

\* User.username: full_name.split()[0]
username(name) == NonEmpty(Split(name, " "))[1]

\* get_user_identifier(session): session['username'] is never set, so a
\* logged-in user is looked up by session['user_id']
get_user_identifier(session) ==
    IF session = "none" THEN anonymous ELSE username(full_name[session])

\* os.path.join of path components
RECURSIVE os_path_join(_)
os_path_join(parts) ==
    IF Len(parts) = 1 THEN parts[1]
    ELSE LET head == os_path_join(SubSeq(parts, 1, Len(parts) - 1))
             last == parts[Len(parts)]
         IN  IF last # <<>> /\ last[1] = "/" THEN last
             ELSE IF head = <<>> \/ head[Len(head)] = "/" THEN head \o last
             ELSE head \o <<"/">> \o last

\* the file system's reading of a path string below the storage root:
\* empty and "." segments are skipped, ".." leaves the directory
RECURSIVE Resolved(_, _, _)
Resolved(segs, i, acc) ==
    IF i > Len(segs) THEN acc
    ELSE IF segs[i] = <<>> \/ segs[i] = <<".">>
         THEN Resolved(segs, i + 1, acc)
    ELSE IF segs[i] = <<".", ".">> /\ acc # <<>>
                                   /\ acc[Len(acc)] # <<".", ".">>
         THEN Resolved(segs, i + 1, SubSeq(acc, 1, Len(acc) - 1))
    ELSE Resolved(segs, i + 1, Append(acc, segs[i]))

PathOf(path_string) == Resolved(Split(path_string, "/"), 1, <<>>)

IsPrefix(p, q) == Len(p) < Len(q) /\ SubSeq(q, 1, Len(p)) = p

IsFile(d, path) == \E f \in d : f.path = path

\* os.path.isdir: makedirs creates a directory before a file is saved in it
IsDir(d, path) == \E f \in d : IsPrefix(path, f.path)

\* os.path.exists
Exists(d, path) == IsFile(d, path) \/ IsDir(d, path)

\* os.listdir
ListDir(d, path) == {f.path[Len(path) + 1] : f \in {g \in d : IsPrefix(path, g.path)}}

\* file.save(file_path)
Save(d, path, bytes) ==
    {f \in d : f.path # path} \cup {[path |-> path, bytes |-> bytes]}

\* os.remove(file_path)
Remove(d, path) == {f \in d : f.path # path}

BytesAt(d, path) == {f.bytes : f \in {g \in d : g.path = path}}

\* create_user_folder and get_organized_file_path
get_organized_file_path(folder_type, user_identifier, filename) ==
    PathOf(os_path_join(<<os_path_join(<<folder_type, user_identifier>>),
                          filename>>))

\* the candidates of one category folder, in any order of os.listdir
InFolderType(d, folder_type, filename) ==
    IF ~Exists(d, <<folder_type>>) THEN {}
    ELSE {<<folder_type, user_folder, filename>> :
            user_folder \in
              {uf \in ListDir(d, <<folder_type>>) :
                 /\ IsDir(d, <<folder_type, uf>>)
                 /\ Exists(d, <<folder_type, uf, filename>>)}}

\* find_file_in_organized_structure: the paths it may return ({}: None)
find_file_in_organized_structure(d, filename) ==
    IF Exists(d, PathOf(filename)) THEN {PathOf(filename)}
    ELSE IF InFolderType(d, sharedfiles, filename) # {}
    THEN InFolderType(d, sharedfiles, filename)
    ELSE InFolderType(d, websitefiles, filename)

----------------------------------------------------------------------------
(* The tables behind share links and stored files.  db is a record of      *)
(* tables, each a set of rows:                                             *)
(*   files         [id, original_filename, stored_filename]                *)
(*   links         [slug, file_id, password_hash, expiry_date, is_active,  *)
(*                  view_count, last_accessed]                             *)
(*   user_files    [user_id, file_id]                                      *)
(*   websites      [id, user_id, is_published]                             *)
(*   website_files [id, website_id, file_id, file_path, is_index]          *)
(* and seq, the number of stored filenames and slugs generated so far.     *)
(* An optional column holds {} for NULL and {v} for the value v.           *)

\* number of files the model uploads
MaxUploads == 2
\* number of links the share-link specification creates
MaxLinks == 1
\* number of websites the model creates
MaxSites == 2
\* cap on a link's view counter
MaxViews == 1
\* last day the clock reaches
MaxDay == 2
\* number of times one entry point is rendered
MaxRenders == 2
\* number of requests handled at the same time
NumWorkers == 2

\* the worker processes that handle requests at the same time
Workers == 1..NumWorkers

\* a worker between two requests.  A worker handling a request holds its
\* route, the slug it concerns, in seen what the request has read and in
\* name the file it uploads; done counts the link requests it has answered
\* with the content
Waiting == [pc |-> "idle", route |-> "none", slug |-> 0, seen |-> {},
            name |-> <<>>, done |-> 0]

\* the raw names of the files uploaded for sharing
ShareNames == { <<"a",".","t","x","t">>, <<"b",".","B","I","N">> }

\* the passwords a request may carry (<<>>: none)
Passwords == { <<>>, <<"p">>, <<"q">> }

\* the optional fields of an upload form: no protection, or a password
\* and an expiry of one day
UploadForms ==
    { [password |-> <<>>, expiry_days |-> 0],
      [password |-> <<"p">>, expiry_days |-> 1] }

NextId(table) == MaxIdOf(table) + 1

FileOf(d, file_id) == CHOOSE f \in d.files : f.id = file_id

\* position of the last "." of a name, 0 when it has none
LastDot(name) ==
    IF \E i \in DOMAIN name : name[i] = "."
    THEN CHOOSE i \in DOMAIN name :
            name[i] = "." /\ \A j \in DOMAIN name : name[j] = "." => j <= i
    ELSE 0

\* original_filename.rsplit('.', 1)[1].lower()
Extension(name) ==
    IF LastDot(name) = 0 THEN <<>>
    ELSE Lower(SubSeq(name, LastDot(name) + 1, Len(name)))

\* generate_unique_filename: timestamp, random token and extension; the
\* n-th name generated differs from every earlier one
generate_unique_filename(n, original_filename) ==
    <<"k">> \o Decimal(n) \o
    (IF LastDot(original_filename) = 0 THEN <<>>
     ELSE <<".">> \o Extension(original_filename))

\* secure_filename(file.filename) or 'unnamed_file'
OriginalName(filename) ==
    IF secure_filename(filename) = <<>> THEN <<"u","n","n","a","m","e","d","_","f","i","l","e">>
    ELSE secure_filename(filename)

\* the bytes of the n-th upload: every upload carries different content
Content(n) == n

\* werkzeug's generate_password_hash / check_password_hash: a hash matches
\* the password it was made from and no other
generate_password_hash(password) == {password}

check_password(link, password) ==
    link.password_hash = {} \/ password \in link.password_hash

\* Link.is_expired
is_expired(link, today) ==
    link.expiry_date # {} /\ \E e \in link.expiry_date : today > e

\* the File and Link rows of one shared upload, and the UserFile row of a
\* logged-in uploader
NewShare(d, session, original_filename, stored_filename, password, expiry_days, today) ==
    LET file_id == NextId(d.files)
    IN  [d EXCEPT
          !.files = @ \cup {[id |-> file_id,
                             original_filename |-> original_filename,
                             stored_filename |-> stored_filename]},
          !.links = @ \cup
              {[slug |-> d.seq + 1,
                file_id |-> file_id,
                password_hash |-> IF password # <<>>
                                  THEN generate_password_hash(password)
                                  ELSE {},
                expiry_date |-> IF expiry_days > 0
                                THEN {today + expiry_days} ELSE {},
                is_active |-> TRUE,
                view_count |-> 0,
                last_accessed |-> {}]},
          !.user_files = IF session = "none" THEN @
                         ELSE @ \cup {[user_id |-> session,
                                       file_id |-> file_id]},
          !.seq = @ + 1]

----------------------------------------------------------------------------
(* Share links: upload, access, deactivation and file deletion *)

\* the extensions File.is_previewable accepts; get_preview_type maps each
\* of them to a type preview_file serves
PreviewableExts ==
    {
      <<"h","t","m","l">>, <<"h","t","m">>, <<"c","s","s">>,
      <<"j","s">>, <<"j","s","o","n">>, <<"x","m","l">>,
      <<"t","x","t">>, <<"m","d">>, <<"p","y">>,
      <<"j","a","v","a">>, <<"c","p","p">>, <<"c">>,
      <<"h">>, <<"c","s">>, <<"p","h","p">>,
      <<"r","b">>, <<"g","o">>, <<"r","s">>,
      <<"j","p","g">>, <<"j","p","e","g">>, <<"p","n","g">>,
      <<"g","i","f">>, <<"b","m","p">>, <<"s","v","g">>,
      <<"w","e","b","p">>, <<"p","d","f">>, <<"m","p","3">>,
      <<"w","a","v">>, <<"o","g","g">>, <<"m","4","a">>,
      <<"m","p","4">>, <<"w","e","b","m">>, <<"a","v","i">>,
      <<"m","o","v">> }

is_previewable(file) == Extension(file.original_filename) \in PreviewableExts

\* the outcome of a request: the route, the HTTP status, what was rendered,
\* the link or website slug concerned (0: none), the asset path requested
\* and the bytes sent
Reply(route, status, view, slug, sent) ==
    [route |-> route, status |-> status, view |-> view, slug |-> slug,
     path |-> <<>>, sent |-> sent]

ActiveLink(d, slug) == {l \in d.links : l.slug = slug /\ l.is_active}

\* faulty variant: the counter is raised, last_accessed is left as it was
increment_views_NoTimestamp(d, link, today) ==
    [d EXCEPT !.links = (@ \ {link}) \cup
        {[link EXCEPT !.view_count = @ + 1]}]

\* Link.increment_views
increment_views(d, link, today) ==
    [d EXCEPT !.links = (@ \ {link}) \cup
        {[link EXCEPT !.view_count = @ + 1, !.last_accessed = {today}]}]

ShareInit ==
    /\ db = [files |-> {}, links |-> {}, user_files |-> {},
             websites |-> {}, website_files |-> {}, seq |-> 0]
    /\ disk = {}
    /\ now = 0
    /\ reply = Reply("none", 200, "none", 0, {})

\* process_upload
ProcessUpload(session, filename, password, expiry_days) ==
    /\ db.seq < MaxUploads
    /\ LET original_filename == OriginalName(filename)
           stored_filename ==
               generate_unique_filename(db.seq + 1, original_filename)
           file_path == get_organized_file_path(
               sharedfiles, get_user_identifier(session), stored_filename)
       IN  /\ disk' = Save(disk, file_path, Content(db.seq + 1))
           /\ db' = NewShare(db, session, original_filename, stored_filename,
                             password, expiry_days, now)
           /\ reply' = Reply("process_upload", 200, "json", db.seq + 1, {})
    /\ UNCHANGED now
    /\ UNCHANGED <<siteVars, slugVars, renderVars, guardVars, raceVars>>

\* one iteration of the loop of bulk_upload: [db, disk]
BulkOne(s, session, filename) ==
    LET original_filename == OriginalName(filename)
        stored_filename ==
            generate_unique_filename(s.db.seq + 1, original_filename)
        file_path == get_organized_file_path(
            sharedfiles, get_user_identifier(session), stored_filename)
    IN  IF filename = <<>> THEN s
        ELSE [db   |-> NewShare(s.db, session, original_filename,
                                stored_filename, <<>>, 0, 0),
              disk |-> Save(s.disk, file_path, Content(s.db.seq + 1))]

RECURSIVE BulkLoop(_, _, _, _)
BulkLoop(s, session, files, i) ==
    IF i > Len(files) THEN s
    ELSE BulkLoop(BulkOne(s, session, files[i]), session, files, i + 1)

\* the files[] lists of a bulk upload
BulkLists == UNION {[1..n -> ShareNames] : n \in 0..MaxBatch}

\* bulk_upload
BulkUpload(session, files) ==
    /\ db.seq + Len(files) <= MaxUploads
    /\ IF files = <<>>
       THEN /\ reply' = Reply("bulk_upload", 400, "json", 0, {})
            /\ UNCHANGED <<db, disk>>
       ELSE LET s == BulkLoop([db |-> db, disk |-> disk], session, files, 1)
            IN  /\ db' = s.db
                /\ disk' = s.disk
                /\ reply' = Reply("bulk_upload", 200, "json", db.seq + 1, {})
    /\ UNCHANGED now
    /\ UNCHANGED <<siteVars, slugVars, renderVars, guardVars, raceVars>>

\* api_upload: the file is saved directly under UPLOAD_FOLDER. The request
\* is a multipart upload, so request.json carries no password or expiry: it
\* is None, or, with a Werkzeug that rejects a body that is not JSON, it
\* raises; the handler then rolls the rows back and answers 500, and the
\* bytes already saved stay (unsupported: the request.json that raises)
ApiUpload(filename, unsupported) ==
    /\ db.seq < MaxUploads
    /\ LET original_filename == OriginalName(filename)
           stored_filename ==
               generate_unique_filename(db.seq + 1, original_filename)
           file_path == PathOf(stored_filename)
       IN  /\ disk' = Save(disk, file_path, Content(db.seq + 1))
           /\ IF unsupported
              THEN /\ db' = [db EXCEPT !.seq = @ + 1]
                   /\ reply' = Reply("api_upload", 500, "error", 0, {})
              ELSE /\ db' = NewShare(db, "none", original_filename,
                                     stored_filename, <<>>, 0, now)
                   /\ reply' = Reply("api_upload", 201, "json", db.seq + 1, {})
    /\ UNCHANGED now
    /\ UNCHANGED <<siteVars, slugVars, renderVars, guardVars, raceVars>>

\* what the handlers of a link do once the link is found, not expired and
\* the password accepted: the views are counted (ENABLE_ANALYTICS is True)
\* and the reply is sent
Counted(link, route, view, sent) ==
    /\ link.view_count < MaxViews
    /\ db' = increment_views(db, link, now)
    /\ reply' = Reply(route, 200, view, link.slug, sent)

Refused(route, status, view, slug) ==
    /\ reply' = Reply(route, status, view, slug, {})
    /\ UNCHANGED db

\* share_link
ShareLink(slug, method, password) ==
    /\ IF ActiveLink(db, slug) = {}
       THEN Refused("share_link", 404, "not_found", slug)
       ELSE LET link == CHOOSE l \in ActiveLink(db, slug) : TRUE
            IN  IF is_expired(link, now)
                THEN Refused("share_link", 410, "expired", slug)
                ELSE IF link.password_hash # {}
                        /\ (password = <<>> \/ ~check_password(link, password))
                THEN Refused("share_link", 200, "password_protect", slug)
                ELSE IF link.password_hash # {} /\ method = "POST"
                THEN Refused("share_link", 302, "redirect", slug)
                ELSE Counted(link, "share_link", "share_page", {})
    /\ UNCHANGED <<disk, now>>
    /\ UNCHANGED <<siteVars, slugVars, renderVars, guardVars, raceVars>>

\* download_file
DownloadFile(slug, password) ==
    /\ IF ActiveLink(db, slug) = {}
       THEN Refused("download_file", 404, "not_found", slug)
       ELSE LET link == CHOOSE l \in ActiveLink(db, slug) : TRUE
                file == FileOf(db, link.file_id)
                found == find_file_in_organized_structure(
                             disk, file.stored_filename)
            IN  IF is_expired(link, now)
                THEN Refused("download_file", 410, "expired", slug)
                ELSE IF link.password_hash # {}
                        /\ (password = <<>> \/ ~check_password(link, password))
                THEN Refused("download_file", 403, "forbidden", slug)
                ELSE IF found = {}
                THEN Refused("download_file", 404, "not_found", slug)
                ELSE \E file_path \in found :
                        Counted(link, "download_file", "file",
                                BytesAt(disk, file_path))
    /\ UNCHANGED <<disk, now>>
    /\ UNCHANGED <<siteVars, slugVars, renderVars, guardVars, raceVars>>

\* preview_file
PreviewFile(slug, password) ==
    /\ IF ActiveLink(db, slug) = {}
       THEN Refused("preview_file", 404, "not_found", slug)
       ELSE LET link == CHOOSE l \in ActiveLink(db, slug) : TRUE
                file == FileOf(db, link.file_id)
                found == find_file_in_organized_structure(
                             disk, file.stored_filename)
            IN  IF is_expired(link, now)
                THEN Refused("preview_file", 410, "expired", slug)
                ELSE IF link.password_hash # {}
                        /\ (password = <<>> \/ ~check_password(link, password))
                THEN Refused("preview_file", 403, "forbidden", slug)
                ELSE IF ~is_previewable(file) \/ found = {}
                THEN Refused("preview_file", 404, "not_found", slug)
                ELSE \E file_path \in found :
                        Counted(link, "preview_file", "file",
                                BytesAt(disk, file_path))
    /\ UNCHANGED <<disk, now>>
    /\ UNCHANGED <<siteVars, slugVars, renderVars, guardVars, raceVars>>

\* verify_password
VerifyPassword(slug, password) ==
    /\ IF ActiveLink(db, slug) = {}
       THEN Refused("verify_password", 404, "not_found", slug)
       ELSE LET link == CHOOSE l \in ActiveLink(db, slug) : TRUE
            IN  IF link.password_hash = {}
                THEN Refused("verify_password", 400, "not_protected", slug)
                ELSE IF password = <<>>
                THEN Refused("verify_password", 400, "password_required", slug)
                ELSE IF check_password(link, password)
                THEN Refused("verify_password", 200, "success", slug)
                ELSE Refused("verify_password", 403, "forbidden", slug)
    /\ UNCHANGED <<disk, now>>
    /\ UNCHANGED <<siteVars, slugVars, renderVars, guardVars, raceVars>>

\* link_info
LinkInfo(slug) ==
    /\ IF ActiveLink(db, slug) = {}
       THEN Refused("link_info", 404, "not_found", slug)
       ELSE Refused("link_info", 200, "json", slug)
    /\ UNCHANGED <<disk, now>>
    /\ UNCHANGED <<siteVars, slugVars, renderVars, guardVars, raceVars>>

\* the X-API-Key header of a request (<<>>: none)
ApiKeys == { <<>>, <<"k">> }

\* delete_link of the API: the link is deactivated, not deleted; api_key
\* is read from the request and not looked at
DeleteLink(slug, api_key) ==
    /\ IF {l \in db.links : l.slug = slug} = {}
       THEN Refused("delete_link", 404, "not_found", slug)
       ELSE LET link == CHOOSE l \in db.links : l.slug = slug
            IN  /\ db' = [db EXCEPT !.links = (@ \ {link}) \cup
                                       {[link EXCEPT !.is_active = FALSE]}]
                /\ reply' = Reply("delete_link", 200, "json", slug, {})
    /\ UNCHANGED <<disk, now>>
    /\ UNCHANGED <<siteVars, slugVars, renderVars, guardVars, raceVars>>

\* a day passes
Tick ==
    /\ now < MaxDay
    /\ now' = now + 1
    /\ UNCHANGED <<db, disk, reply>>
    /\ UNCHANGED <<siteVars, slugVars, renderVars, guardVars, raceVars>>

\* delete_file: the commit fails when a WebsiteFile row, or another user's
\* UserFile row, still references the file (the ORM blanks their file_id,
\* which is NOT NULL); the handler then rolls back and reports the error.
\* Only a file directly under UPLOAD_FOLDER is removed from the disk, and
\* its removal is not undone by the rollback.
DeleteFile(session, file_id) ==
    /\ IF session = "none"
       THEN /\ reply' = Reply("delete_file", 302, "login", 0, {})
            /\ UNCHANGED <<db, disk>>
       ELSE IF [user_id |-> session, file_id |-> file_id] \notin db.user_files
       THEN /\ reply' = Reply("delete_file", 404, "not_found", 0, {})
            /\ UNCHANGED <<db, disk>>
       ELSE LET file == FileOf(db, file_id)
                user_file == [user_id |-> session, file_id |-> file_id]
                flat_path == PathOf(file.stored_filename)
                referenced ==
                    \/ \E wf \in db.website_files : wf.file_id = file_id
                    \/ \E uf \in db.user_files \ {user_file} :
                          uf.file_id = file_id
            IN  /\ disk' = IF Exists(disk, flat_path)
                           THEN Remove(disk, flat_path) ELSE disk
                /\ IF referenced
                   THEN /\ reply' = Reply("delete_file", 302, "error", 0, {})
                        /\ UNCHANGED db
                   ELSE /\ db' = [db EXCEPT
                             !.files = @ \ {file},
                             !.links = {l \in @ : l.file_id # file_id},
                             !.user_files = @ \ {user_file}]
                        /\ reply' = Reply("delete_file", 302, "deleted", 0, {})
    /\ UNCHANGED now
    /\ UNCHANGED <<siteVars, slugVars, renderVars, guardVars, raceVars>>

----------------------------------------------------------------------------
(* Websites in the Content Store: creation, upload of one file, publish    *)
(* and the serving of assets.  A website's slug is named by its id.        *)

\* the passwords a website is created with (empty: no protection)
SitePasswords == { <<>>, <<"p">> }

\* the raw names of the files uploaded to a website
SiteUploadNames ==
    { <<"i","n","d","e","x",".","h","t","m","l">>,
      <<"i","n","d","e","x",".","h","t","m">>,
      <<"w","/","d","/","I","n","d","e","x",".","H","T","M">> }

\* the asset paths requested
AssetRequests ==
    { <<"i","n","d","e","x",".","h","t","m","l">>,
      <<"d","/","I","n","d","e","x",".","H","T","M">>,
      <<"x","/","i","n","d","e","x",".","h","t","m","l">>,
      <<"a",".","c","s","s">> }

SiteFiles(d, website_id) ==
    {wf \in d.website_files : wf.website_id = website_id}

\* the WebsiteFile rows of a website joined with their File rows
SiteRows(d, website_id) ==
    { [id |-> wf.id,
       original_filename |-> FileOf(d, wf.file_id).original_filename,
       file_path |-> wf.file_path,
       is_index |-> wf.is_index] : wf \in SiteFiles(d, website_id) }

WebsiteOf(d, website_id) == {w \in d.websites : w.id = website_id}

\* create_website (POST with a name); password: the password field of the
\* form, empty for a site without protection (Website.set_password)
CreateSite(session, password) ==
    /\ Cardinality(db.websites) < MaxSites
    /\ IF session = "none"
       THEN /\ reply' = Reply("create_website", 302, "login", 0, {})
            /\ UNCHANGED db
       ELSE /\ db' = [db EXCEPT !.websites = @ \cup
                        {[id |-> NextId(db.websites), user_id |-> session,
                          is_published |-> FALSE,
                          password_hash |->
                              IF password = <<>> THEN {}
                              ELSE generate_password_hash(password)]}]
            /\ reply' = Reply("create_website", 302, "created",
                              NextId(db.websites), {})
    /\ UNCHANGED <<disk, now>>
    /\ UNCHANGED <<siteVars, slugVars, renderVars, guardVars, raceVars>>

\* one iteration of the loop of upload_website_files for a file whose
\* name survives secure_filename: [db, disk]
WebsiteUploadOne(s, session, website_id, batch, filename) ==
    LET np == Normalized[filename, RootPrefix(batch)]
        stored_filename ==
            generate_unique_filename(s.db.seq + 1, np.base_filename)
        file_path == get_organized_file_path(
            websitefiles, username(full_name[session]), stored_filename)
        file_id == NextId(s.db.files)
        dec == IndexDecision(SiteRows(s.db, website_id), np, FALSE)
    IN  IF np.base_filename = <<>> THEN s
        ELSE [disk |-> Save(s.disk, file_path, Content(s.db.seq + 1)),
              db |-> [s.db EXCEPT
                  !.files = @ \cup
                      {[id |-> file_id,
                        original_filename |-> np.base_filename,
                        stored_filename |-> stored_filename]},
                  !.user_files = @ \cup
                      {[user_id |-> session, file_id |-> file_id]},
                  !.website_files =
                      {IF wf.website_id = website_id
                       THEN [wf EXCEPT !.is_index =
                               \E r \in dec.files :
                                  r.id = wf.id /\ r.is_index]
                       ELSE wf : wf \in @} \cup
                      {[id |-> NextId(s.db.website_files),
                        website_id |-> website_id,
                        file_id |-> file_id,
                        file_path |-> np.full_path,
                        is_index |-> dec.is_index]},
                  !.seq = @ + 1]]

\* upload_website_files with one file in files[]
UploadToWebsite(session, website_id, filename) ==
    /\ db.seq < MaxUploads
    /\ IF session = "none"
       THEN /\ reply' = Reply("upload_website_files", 302, "login", 0, {})
            /\ UNCHANGED <<db, disk>>
       ELSE IF WebsiteOf(db, website_id) = {}
       THEN /\ reply' = Reply("upload_website_files", 404, "not_found", 0, {})
            /\ UNCHANGED <<db, disk>>
       ELSE IF \E w \in WebsiteOf(db, website_id) : w.user_id # session
       THEN /\ reply' = Reply("upload_website_files", 403, "forbidden", 0, {})
            /\ UNCHANGED <<db, disk>>
       ELSE LET s == WebsiteUploadOne([db |-> db, disk |-> disk], session,
                                      website_id,
                                      <<[filename |-> filename]>>, filename)
            IN  /\ db' = s.db
                /\ disk' = s.disk
                /\ reply' = Reply("upload_website_files", 302,
                                  "manage_website", website_id, {})
    /\ UNCHANGED now
    /\ UNCHANGED <<siteVars, slugVars, renderVars, guardVars, raceVars>>

\* publish_website
PublishSite(session, website_id) ==
    /\ IF session = "none"
       THEN /\ reply' = Reply("publish_website", 302, "login", 0, {})
            /\ UNCHANGED db
       ELSE IF WebsiteOf(db, website_id) = {}
       THEN /\ reply' = Reply("publish_website", 404, "not_found", 0, {})
            /\ UNCHANGED db
       ELSE LET w == CHOOSE x \in WebsiteOf(db, website_id) : TRUE
            IN  IF w.user_id # session
                THEN /\ reply' = Reply("publish_website", 403, "forbidden",
                                       0, {})
                     /\ UNCHANGED db
                ELSE IF SiteFiles(db, website_id) = {}
                        \/ ~HasIndex(SiteRows(db, website_id))
                THEN /\ reply' = Reply("publish_website", 302, "refused",
                                       website_id, {})
                     /\ UNCHANGED db
                ELSE /\ db' = [db EXCEPT !.websites = (@ \ {w}) \cup
                                 {[w EXCEPT !.is_published = ~@]}]
                     /\ reply' = Reply("publish_website", 302, "toggled",
                                       website_id, {})
    /\ UNCHANGED <<disk, now>>
    /\ UNCHANGED <<siteVars, slugVars, renderVars, guardVars, raceVars>>

\* os.path.basename
basename(path) == LET parts == Split(path, "/") IN parts[Len(parts)]

\* the rows the first query of serve_website_asset matches
ExactMatches(d, website_id, normalized_filename) ==
    {wf \in SiteFiles(d, website_id) : wf.file_path = normalized_filename}

\* the rows the fallback query matches
NameMatches(d, website_id, normalized_filename) ==
    {wf \in SiteFiles(d, website_id) :
        FileOf(d, wf.file_id).original_filename =
            basename(normalized_filename)}

\* serve_website_asset (.first() may return any of the matching rows)
ServeWebsiteAsset(slug, filename) ==
    /\ LET normalized_filename == ReplaceChar(filename, "\\", "/")
           published == {w \in WebsiteOf(db, slug) : w.is_published}
           exact == ExactMatches(db, slug, normalized_filename)
           rows == IF exact # {} THEN exact
                   ELSE NameMatches(db, slug, normalized_filename)
           not_found == [Reply("serve_website_asset", 404, "not_found",
                               slug, {}) EXCEPT !.path = filename]
       IN  IF published = {} \/ rows = {}
           THEN reply' = not_found
           ELSE \E wf \in rows :
                  LET found == find_file_in_organized_structure(
                                   disk, FileOf(db, wf.file_id).stored_filename)
                  IN  IF found = {}
                      THEN reply' = not_found
                      ELSE \E file_path \in found :
                             reply' = [Reply("serve_website_asset", 200,
                                             "asset", slug,
                                             BytesAt(disk, file_path))
                                       EXCEPT !.path = filename]
    /\ UNCHANGED <<db, disk, now>>
    /\ UNCHANGED <<siteVars, slugVars, renderVars, guardVars, raceVars>>

\* view_website, lines 96-112: the site has a password, the session holds
\* no matching hash and the query carries no matching password
NeedsPassword(website, session_hashes, password) ==
    /\ website.password_hash # {}
    /\ [website_id |-> website.id, password_hash |-> website.password_hash]
           \notin session_hashes
    /\ ~(password # <<>> /\ password \in website.password_hash)

\* view_website (GET /site/<slug>) against the tables: the password check,
\* the choice of the entry point and the bytes of its file (the rendering
\* of the bytes is modelled apart; the view counter is not modelled here)
ViewSite(slug, password) ==
    /\ LET published == {w \in WebsiteOf(db, slug) : w.is_published}
       IN  IF published = {}
           THEN /\ reply' = Reply("view_website", 404, "not_found", slug, {})
                /\ UNCHANGED <<db, visitor>>
           ELSE LET website == CHOOSE w \in published : TRUE
                    rows == SiteRows(db, slug)
                    marked == FirstIndex(rows)
                    index_file == IF marked # {} THEN marked
                                  ELSE AutoDetect(rows)
                    found == UNION {find_file_in_organized_structure(
                                 disk, FileOf(db, wf.file_id).stored_filename) :
                                 wf \in {x \in SiteFiles(db, slug) :
                                            x.id \in Ids(index_file)}}
                IN  IF NeedsPassword(website, visitor, password)
                    THEN /\ reply' = Reply("view_website", 200,
                                           "password_page", slug, {})
                         /\ UNCHANGED <<db, visitor>>
                    ELSE /\ visitor' =
                              IF website.password_hash = {} THEN visitor
                              ELSE visitor \cup
                                   {[website_id |-> website.id,
                                     password_hash |-> website.password_hash]}
                         /\ db' = IF marked # {} THEN db
                                  ELSE [db EXCEPT !.website_files =
                                     {IF wf.id \in Ids(index_file)
                                      THEN [wf EXCEPT !.is_index = TRUE]
                                      ELSE wf : wf \in @}]
                         /\ IF found = {}
                            THEN reply' = Reply("view_website", 200,
                                                "listing", slug, {})
                            ELSE \E file_path \in found :
                                   reply' = Reply("view_website", 200,
                                                  "index", slug,
                                                  BytesAt(disk, file_path))
    /\ UNCHANGED <<disk, now>>
    /\ UNCHANGED <<siteVars, slugVars, renderVars, raceVars>>

----------------------------------------------------------------------------
(* Requests of one website handled by concurrent workers.  Each request   *)
(* runs in a transaction of its own: it reads the committed rows, and its  *)
(* writes become visible to the others when it commits.  The rows are      *)
(* those of the Site Registry.                                             *)

\* the uploads begun and not yet committed
Uploading == {w \in Workers : txn[w].pc = "upload"}

\* upload_website_files by the owner with one file, up to the query for the
\* existing index (website.py:87-224): the request remembers the rows it
\* has read
BeginUpload(w, filename) ==
    /\ exists
    /\ txn[w].pc = "idle"
    /\ MaxIdOf(website_files) + Cardinality(Uploading) < MaxId
    /\ IF Cardinality(website_files) + 1 > MAX_FILES_FREE
       THEN /\ response' = Resp(302, "file_limit", "manage_website")
            /\ UNCHANGED txn
       ELSE /\ txn' = [txn EXCEPT ![w] =
                         [Waiting EXCEPT !.pc = "upload",
                                         !.route = "upload_website_files",
                                         !.seen = website_files,
                                         !.name = filename]]
            /\ UNCHANGED response
    /\ UNCHANGED <<exists, is_published, website_files>>
    /\ UNCHANGED <<slugVars, shareVars, renderVars, guardVars>>

\* the rest of the request (website.py:225-259): the decision taken on the
\* rows read, the UPDATE of the index it unmarks, the INSERT of its row
\* and the commit
CommitUpload(w) ==
    /\ txn[w].pc = "upload"
    /\ LET np == Normalized[txn[w].name, RootPrefix(<<[filename |-> txn[w].name]>>)]
           d == IndexDecision(txn[w].seen, np, FALSE)
           unmarked == Ids(Flagged(txn[w].seen)) \ Ids(Flagged(d.files))
       IN  /\ website_files' =
                 IF np.base_filename = <<>> THEN website_files
                 ELSE SetFlag(website_files, unmarked, FALSE) \cup
                      { [ id                |-> MaxIdOf(website_files) + 1,
                          original_filename |-> np.base_filename,
                          file_path         |-> np.full_path,
                          is_index          |-> d.is_index ] }
           /\ response' = Resp(302, IF np.base_filename = <<>> THEN "no_files"
                                    ELSE "uploaded", "manage_website")
    /\ txn' = [txn EXCEPT ![w] = Waiting]
    /\ UNCHANGED <<exists, is_published>>
    /\ UNCHANGED <<slugVars, shareVars, renderVars, guardVars>>

\* view_website by a visitor who passes the password check, up to the
\* queries for the entry point (site.py:87-138).  With a marked index the
\* request writes nothing and is answered at once; otherwise it remembers
\* the row it has auto-detected
BeginView(w) ==
    /\ txn[w].pc = "idle"
    /\ IF ~exists \/ ~is_published
       THEN /\ response' = Resp(404, "none", "none")
            /\ UNCHANGED txn
       ELSE LET marked == FirstIndex(website_files)
            IN  IF marked # {}
                THEN /\ response' = [Resp(200, "index", "none")
                                     EXCEPT !.served = Ids(marked)]
                     /\ UNCHANGED txn
                ELSE /\ txn' = [txn EXCEPT ![w] =
                                  [Waiting EXCEPT !.pc = "view",
                                      !.route = "view_website",
                                      !.seen = AutoDetect(website_files)]]
                     /\ UNCHANGED response
    /\ UNCHANGED <<exists, is_published, website_files>>
    /\ UNCHANGED <<slugVars, shareVars, renderVars, guardVars>>

\* the rest of the request (site.py:140-231): the UPDATE that marks the
\* auto-detected row, the commit and the answer
CommitView(w) ==
    /\ txn[w].pc = "view"
    /\ website_files' = SetFlag(website_files, Ids(txn[w].seen), TRUE)
    /\ response' = IF txn[w].seen # {}
                   THEN [Resp(200, "index", "none")
                         EXCEPT !.served = Ids(txn[w].seen)]
                   ELSE Resp(200, "listing", "none")
    /\ txn' = [txn EXCEPT ![w] = Waiting]
    /\ UNCHANGED <<exists, is_published>>
    /\ UNCHANGED <<slugVars, shareVars, renderVars, guardVars>>

----------------------------------------------------------------------------
(* Requests for share links handled by concurrent workers.  A request      *)
(* loads the Link row, and Link.increment_views writes the value it has    *)
(* loaded, plus one, when it commits.                                      *)

LinkRoutes == {"share_link", "download_file", "preview_file"}

\* Link.increment_views on a row loaded earlier: self.view_count += 1 sets
\* the attribute to the loaded value plus one, and the commit writes it
WriteViews(d, link, loaded, today) ==
    [d EXCEPT !.links = (@ \ {link}) \cup
        {[link EXCEPT !.view_count = loaded + 1, !.last_accessed = {today}]}]

\* share_link (GET), download_file or preview_file up to the point where
\* the views are counted: the link is loaded and the checks are made
BeginAccess(w, slug, route, password) ==
    /\ txn[w].pc = "idle"
    /\ IF ActiveLink(db, slug) = {}
       THEN /\ Refused(route, 404, "not_found", slug)
            /\ UNCHANGED txn
       ELSE LET link == CHOOSE l \in ActiveLink(db, slug) : TRUE
                file == FileOf(db, link.file_id)
                found == find_file_in_organized_structure(
                             disk, file.stored_filename)
            IN  IF is_expired(link, now)
                THEN /\ Refused(route, 410, "expired", slug)
                     /\ UNCHANGED txn
                ELSE IF link.password_hash # {}
                        /\ (password = <<>> \/ ~check_password(link, password))
                THEN /\ IF route = "share_link"
                        THEN Refused(route, 200, "password_protect", slug)
                        ELSE Refused(route, 403, "forbidden", slug)
                     /\ UNCHANGED txn
                ELSE IF \/ route = "download_file" /\ found = {}
                        \/ route = "preview_file"
                             /\ (~is_previewable(file) \/ found = {})
                THEN /\ Refused(route, 404, "not_found", slug)
                     /\ UNCHANGED txn
                ELSE /\ link.view_count < MaxViews
                     /\ txn' = [txn EXCEPT ![w] =
                                  [@ EXCEPT !.pc = "access", !.route = route,
                                            !.slug = slug,
                                            !.seen = {link.view_count}]]
                     /\ UNCHANGED <<db, reply>>
    /\ UNCHANGED <<disk, now>>
    /\ UNCHANGED <<siteVars, slugVars, renderVars, guardVars>>

\* the rest of the request: Link.increment_views commits the counter and
\* last_accessed, and the content is sent
CommitAccess(w) ==
    /\ txn[w].pc = "access"
    /\ \E link \in {l \in db.links : l.slug = txn[w].slug} :
         \E loaded \in txn[w].seen :
           LET found == find_file_in_organized_structure(
                   disk, FileOf(db, link.file_id).stored_filename)
           IN  /\ db' = WriteViews(db, link, loaded, now)
               /\ reply' =
                    IF txn[w].route = "share_link"
                    THEN Reply("share_link", 200, "share_page", link.slug, {})
                    ELSE Reply(txn[w].route, 200, "file", link.slug,
                               UNION {BytesAt(disk, file_path) :
                                         file_path \in found})
    /\ txn' = [txn EXCEPT ![w] = [Waiting EXCEPT !.done = txn[w].done + 1]]
    /\ UNCHANGED <<disk, now>>
    /\ UNCHANGED <<siteVars, slugVars, renderVars, guardVars>>

----------------------------------------------------------------------------
(* Rendering of a website's entry point (view_website, lines 162-208).     *)
(* A document is a sequence of characters; the character U+0130 (capital   *)
(* I with dot above) is written "U+0130" and U+0307 (combining dot above)  *)
(* "U+0307".                                                               *)

\* str.lower(): the lower case of U+0130 is the two characters "i" U+0307;
\* every other character has a lower case of one character
RECURSIVE PyLower(_)
PyLower(s) ==
    IF s = <<>> THEN <<>>
    ELSE (IF Head(s) = "U+0130" THEN <<"i", "U+0307">>
          ELSE <<LowerChar(Head(s))>>) \o PyLower(Tail(s))

\* sub occurs in s at position i (counted from 1)
OccursAt(s, sub, i) ==
    i + Len(sub) - 1 <= Len(s) /\ SubSeq(s, i, i + Len(sub) - 1) = sub

Occurrences(s, sub, start) ==
    {i \in start..Len(s) : OccursAt(s, sub, i)}

\* str.find(sub, start), with positions counted from 1 and 0 for -1
Find(s, sub, start) ==
    IF Occurrences(s, sub, start) = {} THEN 0
    ELSE CHOOSE i \in Occurrences(s, sub, start) :
            \A j \in Occurrences(s, sub, start) : i <= j

\* str.rfind(sub)
RFind(s, sub) ==
    IF Occurrences(s, sub, 1) = {} THEN 0
    ELSE CHOOSE i \in Occurrences(s, sub, 1) :
            \A j \in Occurrences(s, sub, 1) : j <= i

\* s[:i] + t + s[i:] of Python, i counted from 0 and clipped to the length
InsertAt(s, i, t) ==
    LET k == IF i > Len(s) THEN Len(s) ELSE i
    IN  SubSeq(s, 1, k) \o t \o SubSeq(s, k + 1, Len(s))

\* faulty variant: the empty segments of the directory are kept
IndexDir_KeepEmpty(file_path) ==
    LET segs == Split(ReplaceChar(file_path, "\\", "/"), "/")
    IN  Join(SubSeq(segs, 1, Len(segs) - 1), "/")

\* index_dir: the directory of the entry file, empty segments dropped
IndexDir(file_path) ==
    LET segs == Split(ReplaceChar(file_path, "\\", "/"), "/")
    IN  Join(NonEmpty(SubSeq(segs, 1, Len(segs) - 1)), "/")

\* base_url
BaseUrl(slug, file_path) ==
    <<"/","s","i","t","e","/">> \o slug \o <<"/","a","s","s","e","t","s","/">> \o
    (IF IndexDir(file_path) # <<>> THEN IndexDir(file_path) \o <<"/">>
     ELSE <<>>)

\* base_tag
BaseTag(base_url) == <<"<","b","a","s","e"," ","h","r","e","f","=","\"">> \o base_url \o <<"\"",">">>

\* the injection of the base tag (lines 172-185)
InjectBase(content, base_tag) ==
    LET lower_content == PyLower(content)
        head_pos == Find(lower_content, <<"<","h","e","a","d">>, 1)
        gt_pos   == Find(content, <<">">>, head_pos)
    IN  IF head_pos # 0
        THEN IF gt_pos # 0 THEN InsertAt(content, gt_pos, base_tag)
             ELSE base_tag \o content
        ELSE <<"<","h","e","a","d",">">> \o base_tag \o <<"<","/","h","e","a","d",">">> \o content

\* the fragment generate_watermark_html returns, cut down to the element
\* that carries its text
WatermarkHtml ==
    <<"<","d","i","v",">","P","o","w","e","r","e","d"," ","b","y"," ","F","i","l","e","L","i","n","k"," ","P","r","o","<","/","d","i","v",">">>

\* the phrases that count as existing branding
Markers ==
    { <<"f","i","l","e","l","i","n","k"," ","p","r","o">>,
      <<"f","i","l","e","l","i","n","k","-","p","r","o">>,
      <<"p","o","w","e","r","e","d"," ","b","y"," ","f","i","l","e","l","i","n","k">>,
      <<"p","u","b","l","i","s","h","e","d"," ","b","y">> }

Contains(s, sub) == Occurrences(s, sub, 1) # {}

\* faulty variant: existing branding is not looked for
InjectWatermark_Unchecked(content, lower_content, is_premium) ==
    LET actual_pos == RFind(PyLower(content), <<"<","/","b","o","d","y",">">>)
    IN  IF is_premium THEN content
        ELSE IF actual_pos # 0
        THEN InsertAt(content, actual_pos - 1, WatermarkHtml)
        ELSE content \o WatermarkHtml

\* the watermark of a free owner's site (lines 187-208); content is the
\* document after the base tag was injected, lower_content the lower case
\* of the document as it was read
InjectWatermark(content, lower_content, is_premium) ==
    LET has_filelink_branding == \E m \in Markers : Contains(lower_content, m)
        body_close_pos == RFind(lower_content, <<"<","/","b","o","d","y",">">>)
        actual_pos == RFind(PyLower(content), <<"<","/","b","o","d","y",">">>)
    IN  IF is_premium \/ has_filelink_branding THEN content
        ELSE IF body_close_pos # 0
        THEN InsertAt(content, actual_pos - 1, WatermarkHtml)
        ELSE content \o WatermarkHtml

\* the entry documents rendered
Docs ==
    { <<"<","h","e","a","d",">","<","t",">","<","/","h","e","a","d",">","<","b","o","d","y",">","x","<","/","b","o","d","y",">">>,
      <<"<","H","T","M","L",">","<","H","e","a","d"," ","a",">","<","B","O","D","Y",">","x","<","/","B","O","D","Y",">">>,
      <<"<","h","e","a","d","e","r",">","x","<","/","h","e","a","d","e","r",">">>,
      <<"x">>,
      <<"<","p",">","U+0130","<","/","p",">","<","/","b","o","d","y",">">>,
      <<"<","h","e","a","d">>,
      <<"P","o","w","e","r","e","d"," ","B","y"," ","F","i","l","e","L","i","n","k","<","/","b","o","d","y",">">>,
      <<"U+0130","U+0130","U+0130","U+0130","U+0130","U+0130","<","h","e","a","d",">","x","<","p",">">> }

\* the virtual paths of the entry files
EntryPaths ==
    { <<"i","n","d","e","x",".","h","t","m","l">>,
      <<"d","o","c","s","/","i","n","d","e","x",".","h","t","m","l">>,
      <<"/","d","/","i","n","d","e","x",".","h","t","m","l">>,
      <<"a","/","/","b","/","I","n","d","e","x",".","H","T","M">> }

\* the slugs of the websites
SiteSlugs == { <<"s">>, <<"m","y","-","s","i","t","e">> }

RenderInit ==
    page = [stage |-> "none", slug |-> <<>>, file_path |-> <<>>,
            content |-> <<>>, is_premium |-> FALSE, base_url |-> <<>>,
            with_base |-> <<>>, out |-> <<>>, renders |-> 0,
            again |-> <<>>]

\* the responses of view_website for an entry file: the file is opened
\* for reading only, so the stored content is what it was
Rendered(slug, file_path, content, is_premium, renders) ==
    LET base_url  == BaseUrl(slug, file_path)
        with_base == InjectBase(content, BaseTag(base_url))
    IN  [stage |-> "done", slug |-> slug, file_path |-> file_path,
         content |-> content, is_premium |-> is_premium,
         base_url |-> base_url, with_base |-> with_base,
         out |-> InjectWatermark(with_base, PyLower(content), is_premium),
         renders |-> renders, again |-> <<>>]

\* view_website from the reading of the entry file to the response: the
\* first view of a website whose entry file holds content
RenderEntryPoint(slug, file_path, content, is_premium) ==
    /\ page' = Rendered(slug, file_path, content, is_premium, 1)
    /\ UNCHANGED <<siteVars, slugVars, shareVars, guardVars, raceVars>>

\* a later view of the same website: the entry file is read again
RenderAgain ==
    /\ page.stage \in {"done", "again"}
    /\ page.renders < MaxRenders
    /\ page' = Rendered(page.slug, page.file_path, page.content,
                        page.is_premium, page.renders + 1)
    /\ UNCHANGED <<siteVars, slugVars, shareVars, guardVars, raceVars>>

\* the watermark step applied to a page that went through it before (the
\* page served is stored as an entry file and viewed)
InjectAgain ==
    /\ page.stage = "done"
    /\ page' = [page EXCEPT
                  !.stage = "again",
                  !.again = InjectWatermark(page.out, PyLower(page.out),
                                            page.is_premium)]
    /\ UNCHANGED <<siteVars, slugVars, shareVars, guardVars, raceVars>>

----------------------------------------------------------------------------
(* Upload requests that fail part-way: an exception (file.save raising on  *)
(* a full disk, the IntegrityError of a slug or stored name already taken) *)
(* ends the request with db.session.rollback() and a 500, or, in           *)
(* upload_website_files, which has no handler, with the 500 of Flask.      *)
(* User.update_storage commits the session when it is called.              *)

\* process_upload failing at the insertion of the link: the bytes were
\* saved; nothing was committed before, so the rollback removes the rows
ProcessUploadFails(session, filename) ==
    /\ db.seq < MaxUploads
    /\ LET stored_filename ==
               generate_unique_filename(db.seq + 1, OriginalName(filename))
           file_path == get_organized_file_path(
               sharedfiles, get_user_identifier(session), stored_filename)
       IN  /\ disk' = Save(disk, file_path, Content(db.seq + 1))
           /\ db' = [db EXCEPT !.seq = @ + 1]
           /\ reply' = Reply("process_upload", 500, "error", 0, {})
    /\ UNCHANGED now
    /\ UNCHANGED <<siteVars, slugVars, renderVars, guardVars, raceVars>>

\* bulk_upload failing at file.save of files[fails_at]: for a logged-in
\* user every earlier iteration ended in update_storage, which committed
\* its rows; for an anonymous one nothing was committed
BulkUploadFails(session, files, fails_at) ==
    /\ db.seq + Len(files) <= MaxUploads
    /\ fails_at \in 1..Len(files)
    /\ LET s == BulkLoop([db |-> db, disk |-> disk], session,
                         SubSeq(files, 1, fails_at - 1), 1)
       IN  /\ disk' = s.disk
           /\ db' = IF session = "none" THEN [db EXCEPT !.seq = s.db.seq]
                    ELSE s.db
           /\ reply' = Reply("bulk_upload", 500, "error", 0, {})
    /\ UNCHANGED now
    /\ UNCHANGED <<siteVars, slugVars, renderVars, guardVars, raceVars>>

\* upload_website_files with two files in files[], failing at file.save of
\* the second: the first iteration ended in update_storage, which
\* committed its rows and the is_index flags it changed
UploadToWebsiteFails(session, website_id, first, second) ==
    /\ db.seq + 1 < MaxUploads
    /\ session # "none"
    /\ \E w \in WebsiteOf(db, website_id) : w.user_id = session
    /\ LET batch == <<[filename |-> first], [filename |-> second]>>
           s == WebsiteUploadOne([db |-> db, disk |-> disk], session,
                                 website_id, batch, first)
       IN  /\ db' = s.db
           /\ disk' = s.disk
           /\ reply' = Reply("upload_website_files", 500, "error",
                             website_id, {})
    /\ UNCHANGED now
    /\ UNCHANGED <<siteVars, slugVars, renderVars, guardVars, raceVars>>

\* share links: upload, every access check, deactivation, passing days
NextShare ==
    \/ \E filename \in ShareNames, form \in UploadForms :
          /\ db.seq < MaxLinks
          /\ ProcessUpload("none", filename, form.password, form.expiry_days)
    \/ \E slug \in 1..MaxLinks, method \in {"GET", "POST"},
          password \in Passwords : ShareLink(slug, method, password)
    \/ \E slug \in 1..MaxLinks, password \in Passwords :
          DownloadFile(slug, password)
    \/ \E slug \in 1..MaxLinks, password \in Passwords :
          PreviewFile(slug, password)
    \/ \E slug \in 1..MaxLinks, password \in Passwords :
          VerifyPassword(slug, password)
    \/ \E slug \in 1..MaxLinks : LinkInfo(slug)
    \/ \E slug \in 1..MaxLinks, api_key \in ApiKeys : DeleteLink(slug, api_key)
    \/ Tick

\* the Content Store: every upload path, download, deletion and assets
NextStore ==
    \/ \E session \in Sessions, filename \in ShareNames,
          password \in Passwords \ {<<"q">>} :
          ProcessUpload(session, filename, password, 0)
    \/ \E session \in Sessions, files \in BulkLists : BulkUpload(session, files)
    \/ \E filename \in ShareNames, unsupported \in BOOLEAN :
          ApiUpload(filename, unsupported)
    \/ \E slug \in 1..MaxUploads, password \in Passwords :
          DownloadFile(slug, password)
    \/ \E session \in Sessions, file_id \in 1..MaxUploads :
          DeleteFile(session, file_id)
    \/ \E session \in Sessions : CreateSite(session, <<>>)
    \/ \E session \in Sessions, website_id \in 1..MaxSites,
          filename \in SiteUploadNames :
          UploadToWebsite(session, website_id, filename)
    \/ \E session \in Sessions, website_id \in 1..MaxSites :
          PublishSite(session, website_id)
    \/ \E slug \in 1..MaxSites, filename \in AssetRequests :
          ServeWebsiteAsset(slug, filename)

NextRender ==
    \/ \E slug \in SiteSlugs, file_path \in EntryPaths, content \in Docs,
          is_premium \in BOOLEAN :
          RenderEntryPoint(slug, file_path, content, is_premium)
    \/ RenderAgain
    \/ InjectAgain

\* every upload path, with the requests that fail part-way
NextAtomic ==
    \/ \E session \in Sessions, filename \in ShareNames :
          ProcessUpload(session, filename, <<>>, 0)
    \/ \E session \in Sessions, filename \in ShareNames :
          ProcessUploadFails(session, filename)
    \/ \E session \in Sessions, files \in BulkLists : BulkUpload(session, files)
    \/ \E session \in Sessions, files \in BulkLists, fails_at \in 1..MaxBatch :
          BulkUploadFails(session, files, fails_at)
    \/ \E filename \in ShareNames, unsupported \in BOOLEAN :
          ApiUpload(filename, unsupported)
    \/ \E session \in Sessions : CreateSite(session, <<>>)
    \/ \E session \in Sessions, website_id \in 1..MaxSites,
          filename \in SiteUploadNames :
          UploadToWebsite(session, website_id, filename)
    \/ \E session \in Sessions, website_id \in 1..MaxSites,
          first \in SiteUploadNames, second \in SiteUploadNames :
          UploadToWebsiteFails(session, website_id, first, second)

\* a password-protected website seen by its owner and by visitors
NextGuard ==
    \/ \E session \in Sessions, password \in SitePasswords :
          CreateSite(session, password)
    \/ \E session \in Sessions, website_id \in 1..MaxSites,
          filename \in SiteUploadNames :
          UploadToWebsite(session, website_id, filename)
    \/ \E session \in Sessions, website_id \in 1..MaxSites :
          PublishSite(session, website_id)
    \/ \E slug \in 1..MaxSites, password \in Passwords :
          ViewSite(slug, password)
    \/ \E slug \in 1..MaxSites, filename \in AssetRequests :
          ServeWebsiteAsset(slug, filename)

\* one website and the requests for it that overlap in time; the requests
\* of the owner other than uploads run between the steps of the others
NextRace ==
    \/ \E has_name \in BOOLEAN : CreateWebsite(has_name)
    \/ \E w \in Workers, filename \in UploadNames : BeginUpload(w, filename)
    \/ \E w \in Workers : CommitUpload(w)
    \/ PublishWebsite("owner")
    \/ CleanupDuplicateFiles("owner")
    \/ \E w \in Workers : BeginView(w)
    \/ \E w \in Workers : CommitView(w)

\* share links and the requests for them that overlap in time
NextCount ==
    \/ \E filename \in ShareNames, form \in UploadForms :
          /\ db.seq < MaxLinks
          /\ ProcessUpload("none", filename, form.password, form.expiry_days)
    \/ \E w \in Workers, slug \in 1..MaxLinks, route \in LinkRoutes,
          password \in Passwords : BeginAccess(w, slug, route, password)
    \/ \E w \in Workers : CommitAccess(w)
    \/ Tick

\* the visitor's session holds no password hash
GuardInit == visitor = {}

\* no request is in flight
RaceInit == txn = [w \in Workers |-> Waiting]

Init ==
    /\ SiteInit /\ SlugInit /\ ShareInit /\ RenderInit
    /\ GuardInit /\ RaceInit

Next ==
    \/ \E has_name \in BOOLEAN : CreateWebsite(has_name)
    \/ \E u \in Users : UploadWebsiteFiles(u)
    \/ \E u \in Users : PublishWebsite(u)
    \/ \E u \in Users : DeleteWebsite(u)
    \/ \E u \in Users : FixIndexDetection(u)
    \/ \E u \in Users : CleanupDuplicateFiles(u)
    \/ FollowRedirect
    \/ \E pw_ok \in BOOLEAN : ViewWebsite(pw_ok)

Spec == Init /\ [][Next]_vars

SpecSlug == Init /\ [][NextSlug]_vars

SpecShare == Init /\ [][NextShare]_vars

SpecStore == Init /\ [][NextStore]_vars

SpecRender == Init /\ [][NextRender]_vars

SpecAtomic == Init /\ [][NextAtomic]_vars

SpecGuard == Init /\ [][NextGuard]_vars

SpecRace == Init /\ [][NextRace]_vars

SpecCount == Init /\ [][NextCount]_vars

----------------------------------------------------------------------------
(* Properties of the Site Registry *)

\* the index selection rule as the specification states it: a file is at
\* root when its virtual path has no "/"
AtRoot(f) == \A i \in DOMAIN f.file_path : f.file_path[i] # "/"

Earliest(S) == {f.id : f \in {g \in S : \A h \in S : g.id <= h.id}}

RuleIndex(files) ==
    LET index == {f \in files : Lower(f.original_filename) \in IndexNames}
        other == {f \in files : /\ Lower(f.original_filename) \in OtherPatterns
                                /\ AtRoot(f)}
    IN  IF index # {}
        THEN IF \E f \in index : AtRoot(f)
             THEN Earliest({f \in index : AtRoot(f)})
             ELSE Earliest(index)
        ELSE Earliest(other)

\* the rows with exactly the rows of S flagged
Reflag(files, S) == {[f EXCEPT !.is_index = (f.id \in S)] : f \in files}

IsIndexName(f) == Lower(f.original_filename) \in IndexNames

\* C1: in every state reached by non-overlapping website operations the
\* website has at most one WebsiteFile with is_index = true.
C1_AtMostOneIndex == Cardinality(Flagged(website_files)) <= 1

\* an upload has moved the flag from an earlier index file to a later one
C1_Witness ==
    /\ response.flash = "uploaded"
    /\ \E f, g \in website_files :
          /\ IsIndexName(f) /\ IsIndexName(g)
          /\ f.id < g.id /\ ~f.is_index /\ g.is_index

C4_UploadAppliesRule ==
    response.flash = "uploaded" => FixIndexFiles(website_files) = website_files

\* C5: after cleanup-duplicates exactly the entry with the highest id of
\* every (lower-cased filename, virtual path) pair remains, in any iteration
\* order, and the remaining entries are unchanged.
C5_CleanupKeepsNewest ==
    [][ response'.flash \in {"removed", "no_duplicates"} =>
          /\ website_files' \subseteq website_files
          /\ \A f \in website_files :
                f \in website_files' <=>
                   \A g \in website_files :
                      DupKey(g) = DupKey(f) => g.id <= f.id ]_vars

\* cleanup has removed a duplicate and left a row of another pair alone
C5_Witness ==
    /\ response.flash = "removed"
    /\ \E f, g \in website_files :
          /\ DupKey(f) # DupKey(g)
          /\ f.id < g.id
          /\ g.id = MaxId

\* C6: when cleanup-duplicates removed an entry, then once the redirect it
\* issues has been handled the flags are those fix-index produces.
C6_CleanupRerunsIndex ==
    response.status = 405 => FixIndexFiles(website_files) = website_files

\* C7: a publish request on a website without files or without a flagged
\* index is refused and changes nothing, and a website goes from
\* unpublished to published only in a state with a flagged index file.
C7_PublishNeedsIndex ==
    [][ /\ ( /\ response'.flash \in {"upload_files_first", "upload_index_first",
                                     "published", "unpublished"}
             /\ (website_files = {} \/ Flagged(website_files) = {}) )
           => /\ response'.flash \in {"upload_files_first", "upload_index_first"}
              /\ UNCHANGED <<exists, is_published, website_files>>
        /\ (~is_published /\ is_published') => Flagged(website_files) # {}
      ]_vars

\* a publish request was refused on a website that has files, none flagged
C7_Witness ==
    /\ response.flash = "upload_index_first"
    /\ website_files # {}
    /\ ~is_published

\* C8: no stored virtual path has a ".." segment or an empty segment.
C8_PathsSanitized ==
    \A f \in website_files :
       \A seg \in Range(Split(f.file_path, "/")) :
          seg # <<>> /\ seg # <<".", ".">>

----------------------------------------------------------------------------
(* Properties of slug creation *)

UniqueSlugs(table) ==
    \A a, b \in table : a # b => a.slug # b.slug

\* C9: no two persisted ShareLinks and no two persisted Websites have the
\* same slug, also when concurrent requests generate the same candidate
\* slug before either has inserted its row.
C9_SlugsUnique == UniqueSlugs(links) /\ UniqueSlugs(websites)

\* two requests generated the same slug; one has inserted its row and the
\* other has met the unique constraint
C9_Witness ==
    \E r1, r2 \in Requests :
       /\ r1 # r2
       /\ req[r1].kind = req[r2].kind
       /\ req[r1].slug = req[r2].slug
       /\ req[r1].pc = "done" /\ req[r1].status # 500
       /\ req[r2].pc = "done" /\ req[r2].status = 500

\* C10: a request that collides on a slug at insert time regenerates the
\* slug and succeeds; no creation request ends as a failed request.
C10_CollisionRetried ==
    \A r \in Requests : req[r].pc = "done" => req[r].status # 500

----------------------------------------------------------------------------
(* Properties of share links *)

\* the routes that check access to a link
AccessRoutes ==
    {"share_link", "download_file", "preview_file", "verify_password"}

\* the link a reply is about, in the tables as the request found them
LinkOf(d, r) == {l \in d.links : l.slug = r.slug}

\* a request was handled in this step
Handled == reply' # reply \/ db' # db \/ disk' # disk

\* C11: for an active link whose expiry date is in the past, every access
\* check (share page, download, preview, password verification) reports
\* Expired, whatever the password supplied, and records no view; a link with
\* no expiry date is never reported Expired
C11_ExpiredOnEveryCheck ==
    [][(Handled /\ reply'.route \in AccessRoutes) =>
         \A l \in LinkOf(db, reply') :
            /\ (l.is_active /\ is_expired(l, now))
                  => (reply'.status = 410 /\ db' = db)
            /\ l.expiry_date = {} => reply'.status # 410]_vars

----------------------------------------------------------------------------
(* Properties of the Content Store *)

\* the ordinal of the upload that wrote a File row's stored file
UploadedAs(d, f) ==
    CHOOSE n \in 1..d.seq :
        generate_unique_filename(n, f.original_filename) = f.stored_filename

\* every stored filename generated so far, and one never generated
KeysOf(d) ==
    {f.stored_filename : f \in d.files} \cup
    {generate_unique_filename(d.seq + 1, <<>>)}

\* the places the specification lets a stored file be: directly under the
\* root, or in an owner's folder of one of the two categories
Placed(dk, key) ==
    {f.path : f \in {g \in dk :
        \/ g.path = <<key>>
        \/ /\ Len(g.path) = 3
           /\ g.path[1] \in {sharedfiles, websitefiles}
           /\ g.path[3] = key}}

\* C13: resolve(storageKey) returns a path exactly when a file with that key
\* is directly under the storage root or in some sharedfiles/<owner>/ or
\* websitefiles/<owner>/ folder; when the key is in the flat layout the flat
\* path is returned; every file written by an upload path (share, bulk, API,
\* website) is resolvable afterwards
C13_ResolveFindsUploads ==
    /\ \A key \in KeysOf(db) :
          LET found == find_file_in_organized_structure(disk, key)
          IN  /\ found # {} <=> Placed(disk, key) # {}
              /\ found \subseteq Placed(disk, key)
              /\ <<key>> \in Placed(disk, key) => found = {<<key>>}
    /\ \A f \in db.files :
          find_file_in_organized_structure(disk, f.stored_filename) # {}

\* C14: downloading a shared file through the slug its upload returned, with
\* the right password when one was set and before expiry, returns exactly
\* the bytes uploaded, whatever was uploaded in between
C14_DownloadRoundTrip ==
    (/\ reply.route = "download_file"
     /\ LinkOf(db, reply) # {}
     /\ reply.status \notin {403, 410})
    => /\ reply.status = 200
       /\ reply.sent = {Content(reply.slug)}

\* C15: the owner's delete-file operation succeeds, and removes with the
\* file every ShareLink and WebsiteFile that references it, also when the
\* file belongs to a website; no ShareLink or WebsiteFile row references a
\* missing StoredFile
C15_DeleteCascades ==
    /\ reply.route = "delete_file" => reply.view # "error"
    /\ \A l \in db.links : \E f \in db.files : f.id = l.file_id
    /\ \A wf \in db.website_files : \E f \in db.files : f.id = wf.file_id

\* C16: after delete-file succeeded for a StoredFile its bytes are gone:
\* resolve(storageKey) returns not-found, whichever layout held the file
C16_DeleteRemovesBytes ==
    [][(reply'.route = "delete_file" /\ reply'.view = "deleted") =>
         \A f \in db.files \ db'.files :
            find_file_in_organized_structure(disk', f.stored_filename) = {}]_vars

\* the bytes uploaded for the files of a set of WebsiteFile rows
UploadedFor(d, rows) == {Content(UploadedAs(d, FileOf(d, wf.file_id))) : wf \in rows}

\* C17: resolveAsset(siteSlug, virtualPath) serves a file of the published
\* website with exactly that virtual path when there is one; otherwise a
\* file of it whose original filename is the last segment of the path when
\* there is one; otherwise NotFound; an unknown or unpublished slug gives
\* NotFound and a file of another website is never served
C17_AssetLookup ==
    reply.route = "serve_website_asset" =>
       LET site  == {w \in WebsiteOf(db, reply.slug) : w.is_published}
           exact == {wf \in SiteFiles(db, reply.slug) :
                        wf.file_path = reply.path}
           named == {wf \in SiteFiles(db, reply.slug) :
                        FileOf(db, wf.file_id).original_filename =
                            basename(reply.path)}
       IN  IF site = {} THEN reply.status = 404
           ELSE IF exact # {}
           THEN reply.status = 200 /\ reply.sent \subseteq UploadedFor(db, exact)
           ELSE IF named # {}
           THEN reply.status = 200 /\ reply.sent \subseteq UploadedFor(db, named)
           ELSE reply.status = 404

\* the mount point of the assets of a website
Mount(slug) ==
    <<"/","s","i","t","e","/">> \o slug \o <<"/","a","s","s","e","t","s","/">>

\* the names of the folders an entry file is in, outermost first
RECURSIVE FolderNames(_, _, _)
FolderNames(file_path, i, cur) ==
    IF i > Len(file_path) THEN <<>>
    ELSE IF file_path[i] = "/"
    THEN (IF cur = <<>> THEN <<>> ELSE <<cur>>) \o
         FolderNames(file_path, i + 1, <<>>)
    ELSE FolderNames(file_path, i + 1, Append(cur, file_path[i]))

\* every name followed by a "/"
RECURSIVE Slashed(_)
Slashed(names) ==
    IF names = <<>> THEN <<>>
    ELSE names[1] \o <<"/">> \o Slashed(Tail(names))

\* C18: the mount point computed for an entry file is /site/<slug>/assets/
\* followed by the directory part of its virtual path and a "/", or just
\* /site/<slug>/assets/ for an entry file at root; docs/index.html gives
\* /site/<slug>/assets/docs/ and index.html gives /site/<slug>/assets/; the
\* result ends in exactly one "/" and has no empty segment
C18_MountPoint ==
    page.stage = "done" =>
       LET u == page.base_url
       IN  /\ u = Mount(page.slug) \o Slashed(FolderNames(page.file_path, 1, <<>>))
           /\ page.file_path = <<"d","o","c","s","/","i","n","d","e","x",".","h","t","m","l">>
                 => u = Mount(page.slug) \o <<"d","o","c","s","/">>
           /\ page.file_path = <<"i","n","d","e","x",".","h","t","m","l">>
                 => u = Mount(page.slug)
           /\ u[Len(u)] = "/"
           /\ \A i \in 1..(Len(u) - 1) : ~(u[i] = "/" /\ u[i + 1] = "/")

\* an entry file below a folder whose stored path has an empty segment
C18_Witness ==
    /\ page.stage = "done"
    /\ page.file_path = <<"a","/","/","b","/","I","n","d","e","x",".","H","T","M">>
    /\ page.base_url = Mount(page.slug) \o <<"a","/","b","/">>

\* s with t put in before position i (counted from 1)
Before(s, i, t) == SubSeq(s, 1, i - 1) \o t \o SubSeq(s, i, Len(s))

\* the positions where word occurs in s, whatever the case of the letters
AnyCase(s, word) == Occurrences(Lower(s), word, 1)

\* the positions of the ">" that close an opening head tag of a document: the
\* tag starts with "<head", in any case, followed by the end of the tag
\* name, and runs to the next ">"
HeadTagEnds(doc) ==
    {g \in 1..Len(doc) :
        \E i \in AnyCase(doc, <<"<","h","e","a","d">>) :
           /\ i + 5 <= g
           /\ doc[i + 5] \in {">", " ", "/"}
           /\ doc[g] = ">"
           /\ \A k \in (i + 5)..(g - 1) : doc[k] # ">"}

\* C19: renderEntryPoint inserts the base tag immediately after the ">" that
\* closes the opening head tag when the document has one (found in any
\* case), and otherwise prepends a <head><base ...></head> wrapper; deleting
\* the inserted text gives back the original document
C19_BaseTagPlacement ==
    page.stage = "done" =>
       LET tag  == BaseTag(page.base_url)
           ends == HeadTagEnds(page.content)
       IN  IF ends # {}
           THEN \E g \in ends :
                   /\ \A h \in ends : g <= h
                   /\ page.with_base = Before(page.content, g + 1, tag)
           ELSE page.with_base =
                   <<"<","h","e","a","d",">">> \o tag \o
                   <<"<","/","h","e","a","d",">">> \o page.content

\* C20: maybeInject returns the markup unchanged for a premium owner, and
\* unchanged when the markup holds one of the marker phrases in any case;
\* otherwise it inserts the promotional fragment immediately before the
\* closing body tag, or appends it when there is no closing body tag
C20_WatermarkPlacement ==
    page.stage = "done" =>
       LET markup == page.with_base
           closes == AnyCase(markup, <<"<","/","b","o","d","y",">">>)
       IN  IF page.is_premium \/
              \E m \in Markers : AnyCase(page.content, m) # {}
           THEN page.out = markup
           ELSE IF closes # {}
           THEN \E i \in closes : page.out = Before(markup, i, WatermarkHtml)
           ELSE page.out = markup \o WatermarkHtml

\* a document that carries none of the marker phrases, in any case
Unbranded(doc) == \A m \in Markers : AnyCase(doc, m) = {}

\* C21: branding injection never duplicates the promotional fragment: the
\* injector applied to its own output returns that output unchanged, a
\* render never changes the stored content of the entry file, and every
\* render of an unbranded page of a free owner holds the fragment exactly
\* once
C21_NoDuplicateBranding ==
    /\ [](page.stage = "again" => page.again = page.out)
    /\ []((page.stage \in {"done", "again"} /\ ~page.is_premium /\
           Unbranded(page.content))
          => Cardinality(Occurrences(page.out, WatermarkHtml, 1)) = 1)
    /\ [][page'.renders > 1 =>
            /\ page'.content = page.content
            /\ page'.out = page.out]_vars

\* an unbranded page of a free owner rendered twice, and its output fed to
\* the injector again
C21_Witness ==
    /\ page.stage = "again"
    /\ page.renders = MaxRenders
    /\ ~page.is_premium
    /\ Unbranded(page.content)
    /\ Occurrences(page.out, WatermarkHtml, 1) # {}
    /\ page.again = page.out

\* the rows of the database and the flags they carry
Committed(d) == [d EXCEPT !.seq = 0]

\* C22: every upload operation is all-or-nothing on the database: a share,
\* bulk, API or website upload request that reports failure leaves none of
\* the rows it created and none of its changes to is_index flags committed;
\* the database is as it was before the request
C22_UploadsAllOrNothing ==
    [][(reply'.status = 500 /\
        reply'.route \in {"process_upload", "bulk_upload", "api_upload",
                          "upload_website_files"})
       => Committed(db') = Committed(db)]_vars

\* C23: a website mutation (upload, publish toggle, delete, fix-index,
\* cleanup-duplicates) requested by a logged-in user who is neither the
\* owner nor an admin is rejected and leaves the website, its WebsiteFile
\* rows, their is_index flags and is_published unchanged
C23_NonOwnerRejected ==
    [][(\E u \in Users \ {"owner"} :
           \/ UploadWebsiteFiles(u)
           \/ PublishWebsite(u)
           \/ DeleteWebsite(u)
           \/ FixIndexDetection(u)
           \/ CleanupDuplicateFiles(u))
       => /\ response' = Forbidden
          /\ UNCHANGED <<exists, is_published, website_files>>]_vars

\* a request of the other user was rejected on a published website with an
\* index file
C23_Witness ==
    /\ response = Forbidden
    /\ exists
    /\ is_published
    /\ Flagged(website_files) # {}

\* C24: the API operation that deletes a link requires authentication: a
\* request that carries no credentials never changes the is_active flag of
\* a link; an authorised one deactivates the link and keeps the row, and a
\* deactivated link is NotFound for share page, download, preview, info
\* and password verification from then on
C24_DeleteNeedsCredentials ==
    /\ [][(\E slug \in 1..MaxLinks : DeleteLink(slug, <<>>)) =>
            \A l \in db.links :
               \E k \in db'.links :
                  k.slug = l.slug /\ k.is_active = l.is_active]_vars
    /\ [][(\E slug \in 1..MaxLinks, api_key \in ApiKeys \ {<<>>} :
              DeleteLink(slug, api_key)) =>
            {l.slug : l \in db'.links} = {l.slug : l \in db.links}]_vars
    /\ [][(Handled /\ reply'.route \in AccessRoutes \cup {"link_info"}) =>
            \A l \in LinkOf(db, reply') :
               ~l.is_active => (reply'.status = 404 /\ db' = db)]_vars
    /\ [][\A l \in db.links : ~l.is_active =>
             \A k \in db'.links : k.slug = l.slug => ~k.is_active]_vars

\* the file fix-index selects among the index.html/index.htm files: the
\* earliest at root, else the earliest in a subdirectory
IndexRule(files) ==
    LET index == {f \in files : IsIndexName(f)}
    IN  IF \E f \in index : AtRoot(f)
        THEN Earliest({f \in index : AtRoot(f)})
        ELSE Earliest(index)

\* C25: viewing a published website that has no flagged index file flags at
\* most one file, the one fix-index would select among the site's
\* index.html/index.htm files, and serves it; with no such file the listing
\* is shown and no flag changes; viewing a site that has a flagged index
\* changes no flag
C25_ViewAgreesWithRule ==
    [][response'.flash \in {"index", "listing"} =>
         IF Flagged(website_files) # {}
         THEN website_files' = website_files
         ELSE IF IndexRule(website_files) = {}
         THEN /\ response'.flash = "listing"
              /\ website_files' = website_files
         ELSE /\ response'.flash = "index"
              /\ response'.served = IndexRule(website_files)
              /\ website_files' = Reflag(website_files,
                                         IndexRule(website_files))]_vars

\* C26: in every state reached by create, upload, publish toggle,
\* fix-index, cleanup-duplicates and deletion, a website with
\* is_published = true has at least one WebsiteFile flagged is_index
C26_PublishedHasIndex ==
    (exists /\ is_published) => Flagged(website_files) # {}

\* C27: the owner can always take a site offline: a publish-toggle request
\* of the owner on a website with is_published = true results in
\* is_published = false, in every reachable state of the website, also one
\* where it has no files or no flagged index file
C27_OwnerCanUnpublish ==
    [][(PublishWebsite("owner") /\ is_published) => ~is_published']_vars


\* the websites whose password hash the visitor's session holds
Admitted == {v.website_id : v \in visitor}

\* C28: a published website with a password serves none of its bytes,
\* through the site view or through the asset endpoint, to a visitor who has
\* not supplied its password in the query or earlier in the session
C28_ProtectedSiteNeedsPassword ==
    \A w \in db.websites :
       (/\ w.is_published
        /\ w.password_hash # {}
        /\ reply.route \in {"view_website", "serve_website_asset"}
        /\ reply.slug = w.id
        /\ reply.sent # {})
       => w.id \in Admitted

\* the site view alone keeps the password: it sends bytes of a protected
\* website only to a visitor it has admitted
C28_ViewKeepsPassword ==
    \A w \in db.websites :
       (/\ w.is_published
        /\ w.password_hash # {}
        /\ reply.route = "view_website"
        /\ reply.slug = w.id
        /\ reply.sent # {})
       => w.id \in Admitted

\* C29: under interleaving of two upload requests, or of an upload request
\* and a site-view request, for the same website, no reachable state has two
\* WebsiteFiles of the website with is_index = true
C29_OneIndexUnderInterleaving ==
    \A f \in website_files, g \in website_files :
       (f.is_index /\ g.is_index) => f.id = g.id

\* the same when every request runs alone: no upload or view begins while
\* another request is in flight
Serial == \A w \in Workers, v \in Workers : (txn[w].pc # "idle" /\ txn[v].pc # "idle") => w = v

\* the sum of f over the finite set S
RECURSIVE SumOver(_, _)
SumOver(S, f) ==
    IF S = {} THEN 0
    ELSE LET x == CHOOSE y \in S : TRUE IN f[x] + SumOver(S \ {x}, f)

\* the link requests answered with the content, by all workers
Answered == SumOver(Workers, [w \in Workers |-> txn[w].done])

\* the views counted on all links
ViewsCounted ==
    LET slugs == {l.slug : l \in db.links}
    IN  SumOver(slugs, [x \in slugs |->
                          (CHOOSE l \in db.links : l.slug = x).view_count])

\* C30: view counting loses no update under concurrency: once the allowed
\* view, download and preview requests have completed, in any
\* interleaving, the view counts have increased by the number of requests
C30_NoLostView ==
    (\A w \in Workers : txn[w].pc = "idle") => ViewsCounted = Answered

====
